---- MODULE Spec2Model ----
(***************************************************************************)
(* Model of slides-factory: the outline parser (bin/parse.js), the markup  *)
(* builder (bin/build.js), the preview server (bin/preview.js) and the     *)
(* video renderer (bin/render.js).  Each program has its own variables,    *)
(* its own actions and its own specification; the other programs stand     *)
(* still in it.                                                            *)
(*                                                                         *)
(* A string is a sequence of one-character strings.  The outline text is   *)
(* kept as the sequence of its lines, i.e. as text.split('\n'); strings    *)
(* and non-empty sequences of newline-free lines are in bijection, so      *)
(* nothing of the text is lost.  parseOutline is one step per stage,       *)
(* parseSlideBlock is one step per loop iteration, with the cursor i       *)
(* (0-based, as in the source) and currentBullets as state.                *)
(***************************************************************************)
EXTENDS Integers, Sequences, FiniteSets, TLC

\* ------------------------------------------------------------------------
\* Bounds of the model
\* ------------------------------------------------------------------------

\* Largest number of lines of an outline text.
MaxLines == 3

\* ------------------------------------------------------------------------
\* Strings
\* ------------------------------------------------------------------------

\* The whitespace characters (\s) that occur in the modelled texts.
WS == {" ", "\t"}

NL == "\n"

\* The backtick character (a string literal cannot hold it).
BQ == "BQ"

\* The first position of s from k on that holds no whitespace, Len(s) + 1 if
\* there is none
RECURSIVE SkipWs(_, _)
SkipWs(s, k) == IF k <= Len(s) /\ s[k] \in WS THEN SkipWs(s, k + 1) ELSE k

\* The last position of s up to k that holds no whitespace, 0 if there is
\* none
RECURSIVE SkipWsBack(_, _)
SkipWsBack(s, k) == IF k >= 1 /\ s[k] \in WS THEN SkipWsBack(s, k - 1) ELSE k

\* String.prototype.trimStart
TrimStart(s) == SubSeq(s, SkipWs(s, 1), Len(s))

\* String.prototype.trimEnd
TrimEnd(s) == SubSeq(s, 1, SkipWsBack(s, Len(s)))

\* String.prototype.trim, on a string without line breaks
Trim(s) == SubSeq(s, SkipWs(s, 1), SkipWsBack(s, Len(s)))

\* Number of leading whitespace characters of s: the length of the group
\* (\s*) at the start of a pattern.
LeadingWs(s) == SkipWs(s, 1) - 1

\* s.slice(n)
Slice(s, n) == SubSeq(s, n + 1, Len(s))

\* !trimmed, for a line: the line has no non-whitespace character
IsBlank(line) == \A k \in 1..Len(line) : line[k] \in WS

\* Array.prototype.join('\n')
RECURSIVE Join(_)
Join(ls) ==
  IF ls = <<>> THEN <<>>
  ELSE IF Len(ls) = 1 THEN ls[1]
  ELSE ls[1] \o <<NL>> \o Join(Tail(ls))

\* ------------------------------------------------------------------------
\* Line patterns of parseSlideBlock
\* ------------------------------------------------------------------------

\* line.match(/^#\s+(.+)$/) on a single line
IsTitleLine(line) ==
  /\ Len(line) >= 3
  /\ line[1] = "#"
  /\ line[2] \in WS

\* line.replace(/^#\s+/, '').trim()
TitleText(line) == Trim(Slice(line, 1))

\* Index of the first "]" of s, 0 if there is none
FirstClose(s) ==
  IF \E k \in 1..Len(s) : s[k] = "]"
  THEN CHOOSE k \in 1..Len(s) : s[k] = "]" /\ \A j \in 1..(k - 1) : s[j] # "]"
  ELSE 0

\* trimmed.match(/^!\[([^\]]*)\]\(([^)]+)\)$/)
IsImage(s) ==
  /\ Len(s) >= 6
  /\ s[1] = "!"
  /\ s[2] = "["
  /\ LET k == FirstClose(s) IN
       /\ k >= 3
       /\ k + 3 <= Len(s)
       /\ s[k + 1] = "("
       /\ s[Len(s)] = ")"
       /\ \A j \in (k + 2)..(Len(s) - 1) : s[j] # ")"

\* imageMatch[1]
ImageAlt(s) == SubSeq(s, 3, FirstClose(s) - 1)

\* imageMatch[2]
ImageSrc(s) == SubSeq(s, FirstClose(s) + 2, Len(s) - 1)

\* line.match(/^(\s*)[-*]\s+(.+)$/) on the un-trimmed line
IsBullet(line) ==
  LET w == LeadingWs(line) IN
    /\ Len(line) >= w + 3
    /\ line[w + 1] \in {"-", "*"}
    /\ line[w + 2] \in WS

\* bulletMatch[1].length
BulletIndent(line) == LeadingWs(line)

\* bulletMatch[2].trim()
BulletText(line) == Trim(Slice(line, LeadingWs(line) + 2))

\* Math.floor(indent / 2)
BulletLevel(line) == BulletIndent(line) \div 2

\* trimmed.startsWith(three backticks)
IsFence(s) ==
  /\ Len(s) >= 3
  /\ s[1] = BQ /\ s[2] = BQ /\ s[3] = BQ

\* trimmed.slice(3).trim()
FenceLang(s) == Trim(Slice(s, 3))

\* lang || 'text'
LangOrText(l) == IF l = <<>> THEN <<"t", "e", "x", "t">> ELSE l

\* ------------------------------------------------------------------------
\* parseOutline: segmentation and title block
\* ------------------------------------------------------------------------

\* Variant of IsSeparator: whitespace around the hyphens is accepted, as by
\* /^\s*---\s*$/m.
IsSeparatorLoose(line) == Trim(line) = <<"-", "-", "-">>

\* A line matched by /^---$/m: the three hyphens span the whole line.
IsSeparator(line) == line = <<"-", "-", "-">>

\* The first non-blank line of t among the lines lo..hi, hi + 1 if none
RECURSIVE FirstText(_, _, _)
FirstText(t, lo, hi) ==
  IF lo > hi THEN hi + 1
  ELSE IF ~IsBlank(t[lo]) THEN lo
  ELSE FirstText(t, lo + 1, hi)

\* The last non-blank line of t among the lines lo..hi, lo - 1 if none
RECURSIVE LastText(_, _, _)
LastText(t, lo, hi) ==
  IF lo > hi THEN lo - 1
  ELSE IF ~IsBlank(t[hi]) THEN hi
  ELSE LastText(t, lo, hi - 1)

\* b.trim() of the piece made of the lines lo..hi of t, as the lines of the
\* trimmed string: leading and trailing blank lines go with the whitespace
\* around them, the first line loses its leading and the last line its
\* trailing whitespace.  The empty string, which filter(Boolean) drops, is
\* <<>>.  (A piece also holds the line breaks next to its separators; trim()
\* removes them.)
TrimBlock(t, lo, hi) ==
  [k \in 1..(LastText(t, lo, hi) - FirstText(t, lo, hi) + 1) |->
     IF FirstText(t, lo, hi) = LastText(t, lo, hi)
     THEN Trim(t[FirstText(t, lo, hi)])
     ELSE IF k = 1 THEN TrimStart(t[FirstText(t, lo, hi)])
     ELSE IF k = LastText(t, lo, hi) - FirstText(t, lo, hi) + 1
     THEN TrimEnd(t[LastText(t, lo, hi)])
     ELSE t[FirstText(t, lo, hi) + k - 1]]

\* Variant of SplitFrom: a piece that is empty once trimmed is kept, as one
\* block of one empty line.
RECURSIVE SplitFromKeepEmpty(_, _, _)
SplitFromKeepEmpty(t, lo, k) ==
  IF k > Len(t)
  THEN IF TrimBlock(t, lo, Len(t)) # <<>>
       THEN << TrimBlock(t, lo, Len(t)) >>
       ELSE << << <<>> >> >>
  ELSE IF IsSeparator(t[k])
  THEN (IF TrimBlock(t, lo, k - 1) # <<>>
        THEN << TrimBlock(t, lo, k - 1) >>
        ELSE << << <<>> >> >>) \o SplitFromKeepEmpty(t, k + 1, k + 1)
  ELSE SplitFromKeepEmpty(t, lo, k + 1)

\* text.split(/^---$/m).map(b => b.trim()).filter(Boolean), read at line k
\* with lo the first line of the piece being read: a piece ends at a
\* separator line and at the end of the text; it is trimmed and kept unless
\* it is empty.
RECURSIVE SplitFrom(_, _, _)
SplitFrom(t, lo, k) ==
  IF k > Len(t)
  THEN IF TrimBlock(t, lo, Len(t)) # <<>>
       THEN << TrimBlock(t, lo, Len(t)) >>
       ELSE <<>>
  ELSE IF IsSeparator(t[k])
  THEN (IF TrimBlock(t, lo, k - 1) # <<>>
        THEN << TrimBlock(t, lo, k - 1) >>
        ELSE <<>>) \o SplitFrom(t, k + 1, k + 1)
  ELSE SplitFrom(t, lo, k + 1)

\* const blocks = text.split(/^---$/m).map(b => b.trim()).filter(Boolean),
\* each block as block.split('\n')
SplitBlocks(t) == SplitFrom(t, 1, 1)

\* A line that starts with n "#" and one whitespace character
HeadAt(line, n) ==
  /\ Len(line) >= n + 1
  /\ \A j \in 1..n : line[j] = "#"
  /\ line[n + 1] \in WS

\* Whether /^#{n}\s+(.+)$/m matches block at the start of its line k.  \s+ is
\* greedy and also matches line breaks: when nothing but whitespace follows
\* the hashes on line k, the group (.+) is taken from the next non-blank line.
HeadMatchAt(block, n, k) ==
  /\ HeadAt(block[k], n)
  /\ \/ ~IsBlank(Slice(block[k], n))
     \/ \E j \in (k + 1)..Len(block) : Len(block[j]) >= 1
     \/ Len(block[k]) >= n + 2

\* The first non-blank line of block from line k on, trimmed; empty if there
\* is none
RECURSIVE NextNonBlank(_, _)
NextNonBlank(block, k) ==
  IF k > Len(block) THEN <<>>
  ELSE IF ~IsBlank(block[k]) THEN Trim(block[k])
  ELSE NextNonBlank(block, k + 1)

\* match[1].trim() of that match
HeadTextAt(block, n, k) ==
  IF ~IsBlank(Slice(block[k], n)) THEN Trim(Slice(block[k], n))
  ELSE NextNonBlank(block, k + 1)

\* result.title after lines 83-88 (n = 1), result.subtitle after lines 84-91
\* (n = 2): match[1].trim() of the first match of /^#{n}\s+(.+)$/m in
\* firstBlock from line k on, empty without a match
RECURSIVE HeadTitle(_, _, _)
HeadTitle(block, n, k) ==
  IF k > Len(block) THEN <<>>
  ELSE IF HeadMatchAt(block, n, k) THEN HeadTextAt(block, n, k)
  ELSE HeadTitle(block, n, k + 1)

\* line.match(/^#{1,2}\s+/)
IsHeadingPrefix(line) == HeadAt(line, 1) \/ HeadAt(line, 2)

\* isTitleOnly
IsTitleOnly(block) ==
  \A k \in 1..Len(block) :
    ~IsBlank(block[k]) => (IsHeadingPrefix(block[k]) \/ IsBlank(block[k]))

\* Variant of SlideBlocks: the first block is kept although it is a title
\* block.
SlideBlocksKeepFirst(bs) == bs

\* const slideBlocks = isTitleOnly ? blocks.slice(1) : blocks
SlideBlocks(bs) == IF IsTitleOnly(bs[1]) THEN Tail(bs) ELSE bs

\* ------------------------------------------------------------------------
\* Outline texts
\* ------------------------------------------------------------------------

\* The lines an outline text is made of.
OutlineLines ==
  { <<>>,
    <<" ">>,
    <<"-", "-", "-">>,
    <<" ", "-", "-", "-">>,
    <<"#", " ", "T">>,
    <<"#", "#", " ", "S">>,
    <<"#", " ">>,
    <<"-", " ", "a">>,
    <<" ", " ", "-", " ", "b">>,
    <<" ", " ", " ", " ", "*", " ", "c", " ">>,
    <<BQ, BQ, BQ>>,
    <<" ", BQ, BQ, BQ, "j", "s">>,
    <<"!", "[", "x", "]", "(", "y", ")">>,
    <<" ", "p", " ">> }

Texts == UNION { [1..n -> OutlineLines] : n \in 1..MaxLines }

\* ------------------------------------------------------------------------
\* State
\* ------------------------------------------------------------------------

VARIABLES
  text,            \* the outline, as text.split('\n')
  pc,              \* "read", "start", "split", "blocks", "title", "content",
                   \* "fence", "done"
  result,          \* parseOutline: the document
  blocks,          \* parseOutline: the trimmed non-empty blocks
  slideBlocks,     \* parseOutline: the blocks to parse as slides
  b,               \* parseOutline: number of slide blocks already parsed
  lines,           \* parseSlideBlock: block.split('\n')
  i,               \* parseSlideBlock: the line cursor (0-based)
  slide,           \* parseSlideBlock: the slide being built
  currentBullets,  \* parseSlideBlock: the pending bullet run
  lang,            \* parseSlideBlock: language of the open fence
  codeLines,       \* parseSlideBlock: lines of the open fence
  previous,        \* the calls of parseOutline that have returned: text and
                   \* document of each
  rpc,             \* render.js: "config", "ffmpeg", "input", "exit1",
                   \* "tempdir", "launch", "slide", "frames", "encode",
                   \* "encoding", "saved", "failed"
  yamlDoc,         \* render.js: content, the document of the content YAML
  fps,             \* render.js: frames per second
  defaultTiming,   \* render.js: seconds per slide when the slide has none
  browser,         \* render.js: "none", "open", "closed"
  totalSlides,     \* render.js: Reveal.getTotalSlides() of the page
  visited,         \* render.js: the indices given to Reveal.slide, in order
  slideIndex,      \* render.js: the slide loop
  frameCount,      \* render.js: frames to capture of the slide shown
  frame,           \* render.js: f, the frame loop
  frameIndex,      \* render.js: number of the next frame file
  shots,           \* render.js: the screenshots taken, in order: number of
                   \* the frame file and slide on the page
  ffmpeg,          \* render.js: the encoder processes spawned, each
                   \* "running" or "closed"
  ffmpegInstalled, \* render.js: ffmpeg -version can be run
  inputExists,     \* render.js: the input HTML file exists
  tempDir,         \* render.js: what the run did to .temp-frames:
                   \* "untouched", "made", "removed"
  vpc,             \* preview.js: "listen", "reading", "sent"
  reqUrl,          \* preview.js: req.url of the request being handled
  filePath,        \* preview.js: the path the handler resolved
  res,             \* preview.js: the response: status and the path of the
                   \* file whose bytes are its body
  bpc,             \* build.js: "config", "read", "theme", "minimal", "head",
                   \* "title", "section", "items", "written", "exit1"
  buildDoc,        \* build.js: content, the document of the content YAML
  html,            \* build.js: the markup produced so far
  sectionIndex,    \* build.js: the slides rendered so far ({{#each slides}})
  itemIndex,       \* build.js: the content items of the slide rendered so
                   \* far ({{#each this.content}})
  theme,           \* build.js: config.theme, the name of the theme
  themes,          \* build.js: the names of the stylesheets of themes/ that
                   \* can be read
  themeCSS,        \* build.js: the stylesheet put into the page
  bulletList,      \* renderBullets: the items it is called with
  bulletsHtml,     \* renderBullets: the markup it returned
  spc,             \* slides.sh: "prompt", the function that runs ("cmd_new",
                   \* "cmd_parse", ...), "node", "exited"
  COMMAND,         \* slides.sh: the command of the call
  NAME,            \* slides.sh: the name of the presentation of the call
  presFiles,       \* slides.sh: what there is of presentations/<name>: "."
                   \* for the directory, and the names of its files
  nodeRuns,        \* slides.sh: the node scripts the call has invoked, each
                   \* with what there was when it was invoked and its exit
                   \* code
  exitStatus       \* slides.sh: the exit status of the call, -1 while it
                   \* runs

renderVars == << rpc, yamlDoc, fps, defaultTiming, browser, totalSlides, visited,
                 slideIndex, frameCount, frame, frameIndex, shots, ffmpeg,
                 ffmpegInstalled, inputExists, tempDir >>

previewVars == << vpc, reqUrl, filePath, res >>

buildVars == << bpc, buildDoc, html, sectionIndex, itemIndex, theme, themes,
               themeCSS >>

bulletVars == << bulletList, bulletsHtml >>

shellVars == << spc, COMMAND, NAME, presFiles, nodeRuns, exitStatus >>

vars == << text, pc, result, blocks, slideBlocks, b, lines, i, slide, currentBullets,
           lang, codeLines, previous, renderVars, previewVars, buildVars,
           bulletVars, shellVars >>

\* What no step of parseOutline touches
otherVars == << previous, renderVars, previewVars, buildVars, bulletVars,
               shellVars >>

parseVars == << lines, i, slide, currentBullets, lang, codeLines >>

EmptyResult == [title |-> <<>>, subtitle |-> <<>>, slides |-> <<>>]

EmptySlide == [title |-> <<>>, content |-> <<>>]

parserVars == << text, pc, result, blocks, slideBlocks, b, parseVars, previous >>

\* render.js before it loads its configuration and looks for ffmpeg and
\* for its input
RenderStart ==
  /\ rpc = "config"
  /\ yamlDoc = [title |-> <<>>, slides |-> <<>>]
  /\ fps = 0
  /\ defaultTiming = << 0, 1 >>
  /\ browser = "none"
  /\ totalSlides = 0
  /\ visited = <<>>
  /\ slideIndex = 0
  /\ frameCount = 0
  /\ frame = 0
  /\ frameIndex = 0
  /\ shots = <<>>
  /\ ffmpeg = <<>>
  /\ ffmpegInstalled = TRUE
  /\ inputExists = TRUE
  /\ tempDir = "untouched"

\* preview.js once it listens
PreviewStart ==
  /\ vpc = "listen"
  /\ reqUrl = <<>>
  /\ filePath = <<>>
  /\ res = [status |-> 0, body |-> <<>>]

\* build.js before it loads its configuration
BuildStart ==
  /\ bpc = "config"
  /\ buildDoc = [title |-> <<>>, subtitle |-> <<>>, slides |-> <<>>]
  /\ html = <<>>
  /\ sectionIndex = 0
  /\ itemIndex = 0
  /\ theme = "minimal"
  /\ themes = {}
  /\ themeCSS = <<>>

\* renderBullets before it is called
BulletsStart ==
  /\ bulletList = <<>>
  /\ bulletsHtml = <<>>

\* slides.sh before its first call, no presentation being there
ShellStart ==
  /\ spc = "prompt"
  /\ COMMAND = ""
  /\ NAME = ""
  /\ presFiles = {}
  /\ nodeRuns = <<>>
  /\ exitStatus = -1

Init ==
  /\ text = <<>>
  /\ pc = "read"
  /\ result = EmptyResult
  /\ blocks = <<>>
  /\ slideBlocks = <<>>
  /\ b = 0
  /\ lines = <<>>
  /\ i = 0
  /\ slide = EmptySlide
  /\ currentBullets = <<>>
  /\ lang = <<>>
  /\ codeLines = <<>>
  /\ previous = <<>>
  /\ RenderStart
  /\ PreviewStart
  /\ BuildStart
  /\ BulletsStart
  /\ ShellStart

\* ------------------------------------------------------------------------
\* parseOutline
\* ------------------------------------------------------------------------

\* Lines 19-21 and 44: the outline file is read and handed to parseOutline.
ReadOutline ==
  /\ pc = "read"
  /\ text' \in Texts
  /\ pc' = "start"
  /\ UNCHANGED << result, blocks, slideBlocks, b, parseVars >>
  /\ UNCHANGED otherVars

\* Lines 63-75: a new document is made and the text is split into its blocks.
SplitOutline ==
  /\ pc = "start"
  /\ result' = EmptyResult
  /\ blocks' = SplitBlocks(text)
  /\ pc' = "split"
  /\ UNCHANGED << text, slideBlocks, b, parseVars >>
  /\ UNCHANGED otherVars

\* Variant of TitleBlock: title and subtitle are taken from the first block
\* only when it is a title block.
TitleBlockOnlyTitles ==
  /\ pc = "split"
  /\ IF Len(blocks) = 0
     THEN /\ pc' = "done"
          /\ slideBlocks' = <<>>
          /\ UNCHANGED result
     ELSE /\ result' = IF IsTitleOnly(blocks[1])
                       THEN [result EXCEPT
                               !.title = HeadTitle(blocks[1], 1, 1),
                               !.subtitle = HeadTitle(blocks[1], 2, 1)]
                       ELSE result
          /\ slideBlocks' = SlideBlocks(blocks)
          /\ pc' = "blocks"
  /\ b' = 0
  /\ UNCHANGED << text, blocks, parseVars >>
  /\ UNCHANGED otherVars

\* Lines 77-99: an outline without blocks is returned as it is; otherwise
\* title and subtitle are taken from the first block and the slide blocks
\* are chosen.
TitleBlock ==
  /\ pc = "split"
  /\ IF Len(blocks) = 0
     THEN /\ pc' = "done"
          /\ slideBlocks' = <<>>
          /\ UNCHANGED result
     ELSE /\ result' = [result EXCEPT !.title = HeadTitle(blocks[1], 1, 1),
                                      !.subtitle = HeadTitle(blocks[1], 2, 1)]
          /\ slideBlocks' = SlideBlocks(blocks)
          /\ pc' = "blocks"
  /\ b' = 0
  /\ UNCHANGED << text, blocks, parseVars >>
  /\ UNCHANGED otherVars

\* Variant of BeginSlideBlock: currentBullets is not made anew.
BeginSlideBlockKeepBullets ==
  /\ pc = "blocks"
  /\ b < Len(slideBlocks)
  /\ lines' = slideBlocks[b + 1]
  /\ slide' = EmptySlide
  /\ i' = 0
  /\ pc' = "title"
  /\ UNCHANGED << text, result, blocks, slideBlocks, b, currentBullets, lang,
                  codeLines >>
  /\ UNCHANGED otherVars

\* Lines 102-103, 113-119: the next slide block enters parseSlideBlock.
BeginSlideBlock ==
  /\ pc = "blocks"
  /\ b < Len(slideBlocks)
  /\ lines' = slideBlocks[b + 1]
  /\ slide' = EmptySlide
  /\ i' = 0
  /\ currentBullets' = <<>>
  /\ pc' = "title"
  /\ UNCHANGED << text, result, blocks, slideBlocks, b, lang, codeLines >>
  /\ UNCHANGED otherVars

\* Line 109: all slide blocks are parsed.
ReturnResult ==
  /\ pc = "blocks"
  /\ b >= Len(slideBlocks)
  /\ pc' = "done"
  /\ UNCHANGED << text, result, blocks, slideBlocks, b, parseVars >>
  /\ UNCHANGED otherVars

\* ------------------------------------------------------------------------
\* parseSlideBlock
\* ------------------------------------------------------------------------

\* Variant of FlushBullets: the bullets block is pushed without the test for
\* pending bullets.
FlushBulletsAlways(content, bullets) ==
  Append(content, [type |-> "bullets", items |-> bullets])

\* Lines 145-151, 159-165, 190-196, 214-220, 229-234: push the pending bullet
\* run, if there is one, as one bullets block.
FlushBullets(content, bullets) ==
  IF Len(bullets) > 0
  THEN Append(content, [type |-> "bullets", items |-> bullets])
  ELSE content

\* Variant of TitleScan: a first line that is no title is passed over.
TitleScanSkipFirst ==
  /\ pc = "title"
  /\ IF i < Len(lines)
     THEN LET line == Trim(lines[i + 1]) IN
            IF IsTitleLine(line)
            THEN /\ slide' = [slide EXCEPT !.title = TitleText(line)]
                 /\ i' = i + 1
                 /\ pc' = "content"
            ELSE IF line # <<>>
            THEN /\ pc' = "content"
                 /\ i' = i + 1
                 /\ UNCHANGED slide
            ELSE /\ i' = i + 1
                 /\ UNCHANGED << slide, pc >>
     ELSE /\ pc' = "content"
          /\ UNCHANGED << slide, i >>
  /\ UNCHANGED << text, result, blocks, slideBlocks, b, lines, currentBullets, lang,
                  codeLines >>
  /\ UNCHANGED otherVars

\* Lines 122-133: one iteration of the title scan.
TitleScan ==
  /\ pc = "title"
  /\ IF i < Len(lines)
     THEN LET line == Trim(lines[i + 1]) IN
            IF IsTitleLine(line)
            THEN /\ slide' = [slide EXCEPT !.title = TitleText(line)]
                 /\ i' = i + 1
                 /\ pc' = "content"
            ELSE IF line # <<>>
            THEN /\ pc' = "content"
                 /\ UNCHANGED << slide, i >>
            ELSE /\ i' = i + 1
                 /\ UNCHANGED << slide, pc >>
     ELSE /\ pc' = "content"
          /\ UNCHANGED << slide, i >>
  /\ UNCHANGED << text, result, blocks, slideBlocks, b, lines, currentBullets, lang,
                  codeLines >>
  /\ UNCHANGED otherVars

\* Variant of BlankLine: the empty line is passed over, the pending bullets
\* stay pending.
BlankLineNoFlush ==
  /\ pc = "content"
  /\ i < Len(lines)
  /\ Trim(lines[i + 1]) = <<>>
  /\ i' = i + 1
  /\ UNCHANGED << text, pc, result, blocks, slideBlocks, b, lines, slide,
                  currentBullets, lang, codeLines >>
  /\ UNCHANGED otherVars

\* Variant of BlankLine: the cursor is not advanced past the empty line.
BlankLineNoAdvance ==
  /\ pc = "content"
  /\ i < Len(lines)
  /\ Trim(lines[i + 1]) = <<>>
  /\ slide' = [slide EXCEPT !.content = FlushBullets(@, currentBullets)]
  /\ currentBullets' = <<>>
  /\ UNCHANGED << text, pc, result, blocks, slideBlocks, b, lines, i, lang,
                  codeLines >>
  /\ UNCHANGED otherVars

\* Lines 138-154: an empty line flushes the pending bullets.
BlankLine ==
  /\ pc = "content"
  /\ i < Len(lines)
  /\ Trim(lines[i + 1]) = <<>>
  /\ slide' = [slide EXCEPT !.content = FlushBullets(@, currentBullets)]
  /\ currentBullets' = <<>>
  /\ i' = i + 1
  /\ UNCHANGED << text, pc, result, blocks, slideBlocks, b, lines, lang, codeLines >>
  /\ UNCHANGED otherVars

\* Lines 156-173: an image line.
\* Variant of ImageLine: the image is pushed first, the pending bullets
\* after it.
ImageLineBeforeFlush ==
  /\ pc = "content"
  /\ i < Len(lines)
  /\ LET trimmed == Trim(lines[i + 1]) IN
       /\ trimmed # <<>>
       /\ IsImage(trimmed)
       /\ slide' = [slide EXCEPT !.content =
                      FlushBullets(
                        Append(@, [type |-> "image", alt |-> ImageAlt(trimmed),
                                   src |-> ImageSrc(trimmed)]),
                        currentBullets)]
  /\ currentBullets' = <<>>
  /\ i' = i + 1
  /\ UNCHANGED << text, pc, result, blocks, slideBlocks, b, lines, lang, codeLines >>
  /\ UNCHANGED otherVars

ImageLine ==
  /\ pc = "content"
  /\ i < Len(lines)
  /\ LET trimmed == Trim(lines[i + 1]) IN
       /\ trimmed # <<>>
       /\ IsImage(trimmed)
       /\ slide' = [slide EXCEPT !.content =
                      Append(FlushBullets(@, currentBullets),
                             [type |-> "image", alt |-> ImageAlt(trimmed),
                              src |-> ImageSrc(trimmed)])]
  /\ currentBullets' = <<>>
  /\ i' = i + 1
  /\ UNCHANGED << text, pc, result, blocks, slideBlocks, b, lines, lang, codeLines >>
  /\ UNCHANGED otherVars

\* Variant of BulletLine: a bullet of another level than the one before it
\* starts a new list.
BulletLineSplitOnLevel ==
  /\ pc = "content"
  /\ i < Len(lines)
  /\ LET line == lines[i + 1]
         trimmed == Trim(line)
         item == [text |-> BulletText(line), level |-> BulletLevel(line)]
         split == /\ currentBullets # <<>>
                  /\ currentBullets[Len(currentBullets)].level # item.level
     IN /\ trimmed # <<>>
        /\ ~IsImage(trimmed)
        /\ IsBullet(line)
        /\ currentBullets' = IF split THEN << item >>
                              ELSE Append(currentBullets, item)
        /\ slide' = IF split
                    THEN [slide EXCEPT
                            !.content = FlushBullets(@, currentBullets)]
                    ELSE slide
  /\ i' = i + 1
  /\ UNCHANGED << text, pc, result, blocks, slideBlocks, b, lines, lang,
                  codeLines >>
  /\ UNCHANGED otherVars

\* Lines 175-186: a bullet line joins the pending run.
BulletLine ==
  /\ pc = "content"
  /\ i < Len(lines)
  /\ LET line == lines[i + 1]
         trimmed == Trim(line)
     IN /\ trimmed # <<>>
        /\ ~IsImage(trimmed)
        /\ IsBullet(line)
        /\ currentBullets' = Append(currentBullets,
                                    [text |-> BulletText(line),
                                     level |-> BulletLevel(line)])
  /\ i' = i + 1
  /\ UNCHANGED << text, pc, result, blocks, slideBlocks, b, lines, slide, lang,
                  codeLines >>
  /\ UNCHANGED otherVars

\* Lines 188-199: an opening fence.
FenceOpen ==
  /\ pc = "content"
  /\ i < Len(lines)
  /\ LET line == lines[i + 1]
         trimmed == Trim(line)
     IN /\ trimmed # <<>>
        /\ ~IsImage(trimmed)
        /\ ~IsBullet(line)
        /\ IsFence(trimmed)
        /\ lang' = FenceLang(trimmed)
  /\ slide' = [slide EXCEPT !.content = FlushBullets(@, currentBullets)]
  /\ currentBullets' = <<>>
  /\ codeLines' = <<>>
  /\ i' = i + 1
  /\ pc' = "fence"
  /\ UNCHANGED << text, result, blocks, slideBlocks, b, lines >>
  /\ UNCHANGED otherVars

\* Variant of FenceLine: the line is trimmed before it is kept.
FenceLineTrimmed ==
  /\ pc = "fence"
  /\ i < Len(lines)
  /\ ~IsFence(Trim(lines[i + 1]))
  /\ codeLines' = Append(codeLines, Trim(lines[i + 1]))
  /\ i' = i + 1
  /\ UNCHANGED << text, pc, result, blocks, slideBlocks, b, lines, slide,
                  currentBullets, lang >>
  /\ UNCHANGED otherVars

\* Lines 200-203: one iteration of the fence loop.
FenceLine ==
  /\ pc = "fence"
  /\ i < Len(lines)
  /\ ~IsFence(Trim(lines[i + 1]))
  /\ codeLines' = Append(codeLines, lines[i + 1])
  /\ i' = i + 1
  /\ UNCHANGED << text, pc, result, blocks, slideBlocks, b, lines, slide,
                  currentBullets, lang >>
  /\ UNCHANGED otherVars

\* Variant of FenceClose: the code block is pushed only at a closing fence.
FenceCloseOnlyClosed ==
  /\ pc = "fence"
  /\ ~(i < Len(lines) /\ ~IsFence(Trim(lines[i + 1])))
  /\ slide' = IF i < Len(lines)
              THEN [slide EXCEPT !.content =
                      Append(@, [type |-> "code",
                                 language |-> LangOrText(lang),
                                 code |-> Join(codeLines)])]
              ELSE slide
  /\ i' = i + 1
  /\ pc' = "content"
  /\ UNCHANGED << text, result, blocks, slideBlocks, b, lines,
                  currentBullets, lang, codeLines >>
  /\ UNCHANGED otherVars

\* Lines 204-210: the fence loop has ended, at a closing fence or at the end
\* of the block.
FenceClose ==
  /\ pc = "fence"
  /\ ~(i < Len(lines) /\ ~IsFence(Trim(lines[i + 1])))
  /\ slide' = [slide EXCEPT !.content =
                 Append(@, [type |-> "code", language |-> LangOrText(lang),
                            code |-> Join(codeLines)])]
  /\ i' = i + 1
  /\ pc' = "content"
  /\ UNCHANGED << text, result, blocks, slideBlocks, b, lines, currentBullets, lang,
                  codeLines >>
  /\ UNCHANGED otherVars

\* Lines 213-225: any other line is a paragraph.
\* Variant of ParagraphLine: a paragraph line that follows a paragraph is
\* added to it.
ParagraphLineMerged ==
  /\ pc = "content"
  /\ i < Len(lines)
  /\ LET line == lines[i + 1]
         trimmed == Trim(line)
         n == Len(slide.content)
     IN /\ trimmed # <<>>
        /\ ~IsImage(trimmed)
        /\ ~IsBullet(line)
        /\ ~IsFence(trimmed)
        /\ slide' =
             IF currentBullets = <<>> /\ n > 0 /\ slide.content[n].type = "text"
             THEN [slide EXCEPT !.content[n].text = @ \o << NL >> \o trimmed]
             ELSE [slide EXCEPT !.content =
                     Append(FlushBullets(@, currentBullets),
                            [type |-> "text", text |-> trimmed])]
  /\ currentBullets' = <<>>
  /\ i' = i + 1
  /\ UNCHANGED << text, pc, result, blocks, slideBlocks, b, lines, lang, codeLines >>
  /\ UNCHANGED otherVars

ParagraphLine ==
  /\ pc = "content"
  /\ i < Len(lines)
  /\ LET line == lines[i + 1]
         trimmed == Trim(line)
     IN /\ trimmed # <<>>
        /\ ~IsImage(trimmed)
        /\ ~IsBullet(line)
        /\ ~IsFence(trimmed)
        /\ slide' = [slide EXCEPT !.content =
                       Append(FlushBullets(@, currentBullets),
                              [type |-> "text", text |-> trimmed])]
  /\ currentBullets' = <<>>
  /\ i' = i + 1
  /\ UNCHANGED << text, pc, result, blocks, slideBlocks, b, lines, lang, codeLines >>
  /\ UNCHANGED otherVars

\* Variant of EndSlideBlock: the slide is put in front of result.slides.
EndSlideBlockUnshift ==
  /\ pc = "content"
  /\ i >= Len(lines)
  /\ LET done == [slide EXCEPT !.content = FlushBullets(@, currentBullets)] IN
       /\ slide' = done
       /\ result' = [result EXCEPT !.slides = << done >> \o @]
  /\ b' = b + 1
  /\ pc' = "blocks"
  /\ UNCHANGED << text, blocks, slideBlocks, lines, i, currentBullets, lang,
                  codeLines >>
  /\ UNCHANGED otherVars

\* Lines 228-236 and 104-106: the content loop has ended; the remaining
\* bullets are flushed and the slide is pushed to result.slides.
EndSlideBlock ==
  /\ pc = "content"
  /\ i >= Len(lines)
  /\ LET done == [slide EXCEPT !.content = FlushBullets(@, currentBullets)] IN
       /\ slide' = done
       /\ result' = [result EXCEPT !.slides = Append(@, done)]
  /\ b' = b + 1
  /\ pc' = "blocks"
  /\ UNCHANGED << text, blocks, slideBlocks, lines, i, currentBullets, lang,
                  codeLines >>
  /\ UNCHANGED otherVars

Next ==
  \/ ReadOutline
  \/ SplitOutline
  \/ TitleBlock
  \/ BeginSlideBlock
  \/ ReturnResult
  \/ TitleScan
  \/ BlankLine
  \/ ImageLine
  \/ BulletLine
  \/ FenceOpen
  \/ FenceLine
  \/ FenceClose
  \/ ParagraphLine
  \/ EndSlideBlock

Spec == Init /\ [][Next]_vars

\* The steps of parseOutline
Parse ==
  \/ SplitOutline
  \/ TitleBlock
  \/ BeginSlideBlock
  \/ ReturnResult
  \/ TitleScan
  \/ BlankLine
  \/ ImageLine
  \/ BulletLine
  \/ FenceOpen
  \/ FenceLine
  \/ FenceClose
  \/ ParagraphLine
  \/ EndSlideBlock

\* parseOutline is synchronous: it runs on while it has a step to take.
FairSpec == Spec /\ WF_vars(Parse)

\* ------------------------------------------------------------------------
\* parseOutline called again
\* ------------------------------------------------------------------------

\* A text parsed between two calls on one text; it leaves a document with
\* titles and a slide, an open fence and pending bullets behind.
OtherTexts ==
  { << <<"#", " ", "T">>, <<"#", "#", " ", "S">>, <<"-", "-", "-">>,
       <<BQ, BQ, BQ, "j", "s">>, <<" ", "p">>, <<BQ, BQ, BQ>>,
       <<"-", " ", "a">> >> }

\* Lines 62-110: parseOutline has returned and is called again: after the
\* first call on the same text or on another text, after a call on another
\* text on the first text.  What the last call left in the variables of the
\* model is still there.
ParseAgain ==
  /\ pc = "done"
  /\ \/ /\ previous = <<>>
        /\ text' \in {text} \cup OtherTexts
     \/ /\ Len(previous) = 1
        /\ previous[1].text # text
        /\ text' = previous[1].text
  /\ previous' = Append(previous, [text |-> text, result |-> result])
  /\ pc' = "start"
  /\ UNCHANGED << result, blocks, slideBlocks, b, parseVars >>
  /\ UNCHANGED << renderVars, previewVars, buildVars, bulletVars, shellVars >>

AgainNext ==
  \/ ReadOutline
  \/ SplitOutline
  \/ TitleBlock
  \/ BeginSlideBlock
  \/ ReturnResult
  \/ TitleScan
  \/ BlankLine
  \/ ImageLine
  \/ BulletLine
  \/ FenceOpen
  \/ FenceLine
  \/ FenceClose
  \/ ParagraphLine
  \/ EndSlideBlock
  \/ ParseAgain

AgainSpec == Init /\ [][AgainNext]_vars

\* ------------------------------------------------------------------------
\* parseSlideBlock on its own
\* ------------------------------------------------------------------------

\* The blocks parseSlideBlock is applied to: any lines, a first line that is
\* blank included
SlideBlockInputs == UNION {[1..n -> OutlineLines] : n \in 1..MaxLines}

\* Line 112: parseSlideBlock is entered with one block.
SlideInit ==
  /\ text = <<>>
  /\ pc = "blocks"
  /\ result = EmptyResult
  /\ blocks = <<>>
  /\ slideBlocks \in {<< block >> : block \in SlideBlockInputs}
  /\ b = 0
  /\ lines = <<>>
  /\ i = 0
  /\ slide = EmptySlide
  /\ currentBullets = <<>>
  /\ lang = <<>>
  /\ codeLines = <<>>
  /\ previous = <<>>
  /\ RenderStart
  /\ PreviewStart
  /\ BuildStart
  /\ BulletsStart
  /\ ShellStart

SlideNext ==
  \/ BeginSlideBlock
  \/ ReturnResult
  \/ TitleScan
  \/ BlankLine
  \/ ImageLine
  \/ BulletLine
  \/ FenceOpen
  \/ FenceLine
  \/ FenceClose
  \/ ParagraphLine
  \/ EndSlideBlock

SlideSpec == SlideInit /\ [][SlideNext]_vars

TypeOK ==
  /\ pc \in {"read", "start", "split", "blocks", "title", "content", "fence", "done"}
  /\ i \in 0..(MaxLines + 1)
  /\ b \in 0..Len(slideBlocks)

\* ------------------------------------------------------------------------
\* render.js
\* ------------------------------------------------------------------------

MaxSlides == 2

\* A number of seconds is a fraction << n, d >>, n / d.
\* Math.round(t * k) for the seconds t and the whole number k; a half is
\* rounded up.
Round(t, k) == (2 * t[1] * k + t[2]) \div (2 * t[2])

\* A slide without a timing key (or with timing 0, which is as falsy)
NoTiming == << 0, 1 >>

\* The timing of a slide in the YAML: none, half a second, a second and a
\* half
SlideTimings == {NoTiming, << 1, 2 >>, << 3, 2 >>}

\* Values of timing.default of config.yaml
DefaultTimings == {<< 1, 1 >>, << 2, 1 >>}

\* Values of --fps
FpsValues == {1, 2}

\* The documents of the content YAML, as far as render.js reads them and
\* the page depends on them: the title and the timing of each slide
ContentDocs ==
  {[title |-> ti, slides |-> sl] :
     ti \in {<<>>, << "T" >>},
     sl \in UNION {[1..n -> [timing : SlideTimings]] : n \in 0..MaxSlides}}

\* build.js line 142: title: content.title || 'Presentation'
TemplateTitle(doc) ==
  IF doc.title = <<>> THEN << "Presentation" >> ELSE doc.title

\* build.js lines 177-191: the sections of the page built from doc: the
\* title slide when the title is set, then one section per slide
HasTitleSlide(doc) == TemplateTitle(doc) # <<>>

PageSections(doc) == (IF HasTitleSlide(doc) THEN 1 ELSE 0) + Len(doc.slides)

\* What no step of render.js touches
notRender == << parserVars, previewVars, buildVars, bulletVars, shellVars >>

\* Lines 25-55: the options, config.yaml and the content YAML are loaded.
LoadConfig ==
  /\ rpc = "config"
  /\ yamlDoc' \in ContentDocs
  /\ fps' \in FpsValues
  /\ defaultTiming' \in DefaultTimings
  /\ ffmpegInstalled' \in BOOLEAN
  /\ inputExists' \in BOOLEAN
  /\ rpc' = "ffmpeg"
  /\ UNCHANGED << browser, totalSlides, visited, slideIndex, frameCount, frame,
                  frameIndex, shots, ffmpeg, tempDir >>
  /\ UNCHANGED notRender

\* Lines 57-64: ffmpeg -version is run; when it cannot be, process.exit(1).
CheckFfmpeg ==
  /\ rpc = "ffmpeg"
  /\ rpc' = IF ffmpegInstalled THEN "input" ELSE "exit1"
  /\ UNCHANGED << yamlDoc, fps, defaultTiming, browser, totalSlides, visited,
                  slideIndex, frameCount, frame, frameIndex, shots, ffmpeg >>
  /\ UNCHANGED << ffmpegInstalled, inputExists, tempDir >>
  /\ UNCHANGED notRender

\* Variant of CheckInput: the run goes on without the input file.
CheckInputGoesOn ==
  /\ rpc = "input"
  /\ rpc' = "tempdir"
  /\ UNCHANGED << yamlDoc, fps, defaultTiming, browser, totalSlides, visited,
                  slideIndex, frameCount, frame, frameIndex, shots, ffmpeg >>
  /\ UNCHANGED << ffmpegInstalled, inputExists, tempDir >>
  /\ UNCHANGED notRender

\* Lines 66-72: when the input HTML file does not exist, process.exit(1);
\* else render() is called (line 199).
CheckInput ==
  /\ rpc = "input"
  /\ rpc' = IF inputExists THEN "tempdir" ELSE "exit1"
  /\ UNCHANGED << yamlDoc, fps, defaultTiming, browser, totalSlides, visited,
                  slideIndex, frameCount, frame, frameIndex, shots, ffmpeg >>
  /\ UNCHANGED << ffmpegInstalled, inputExists, tempDir >>
  /\ UNCHANGED notRender

\* Lines 77-82: the directory of the frames is removed when it exists, and
\* made.
MakeTempDir ==
  /\ rpc = "tempdir"
  /\ tempDir' = "made"
  /\ rpc' = "launch"
  /\ UNCHANGED << yamlDoc, fps, defaultTiming, browser, totalSlides, visited,
                  slideIndex, frameCount, frame, frameIndex, shots, ffmpeg >>
  /\ UNCHANGED << ffmpegInstalled, inputExists >>
  /\ UNCHANGED notRender

\* Lines 85-116: the browser is launched, the page built from the content
\* is loaded and its slides are counted; the capture starts at slide 0 and
\* frame 0.
LaunchBrowser ==
  /\ rpc = "launch"
  /\ browser' = "open"
  /\ totalSlides' = PageSections(yamlDoc)
  /\ frameIndex' = 0
  /\ slideIndex' = 0
  /\ rpc' = "slide"
  /\ UNCHANGED << yamlDoc, fps, defaultTiming, visited, frameCount, frame, shots,
                  ffmpeg >>
  /\ UNCHANGED << ffmpegInstalled, inputExists, tempDir >>
  /\ UNCHANGED notRender

\* Line 126: content.slides?.[slideIndex]?.timing || defaultTiming
SlideTiming ==
  IF slideIndex < Len(yamlDoc.slides)
       /\ yamlDoc.slides[slideIndex + 1].timing # NoTiming
  THEN yamlDoc.slides[slideIndex + 1].timing
  ELSE defaultTiming

\* Lines 116-132: the page goes to slide slideIndex and the number of frames
\* of the slide is computed.
GotoSlide ==
  /\ rpc = "slide"
  /\ slideIndex < totalSlides
  /\ visited' = Append(visited, slideIndex)
  /\ frameCount' = Round(SlideTiming, fps)
  /\ frame' = 0
  /\ rpc' = "frames"
  /\ UNCHANGED << yamlDoc, fps, defaultTiming, browser, totalSlides, slideIndex,
                  frameIndex, shots, ffmpeg >>
  /\ UNCHANGED << ffmpegInstalled, inputExists, tempDir >>
  /\ UNCHANGED notRender

\* Variant of Screenshot: the number of the frame file is not counted up.
ScreenshotSameFile ==
  /\ rpc = "frames"
  /\ frame < frameCount
  /\ shots' = Append(shots, [index |-> frameIndex,
                             slide |-> visited[Len(visited)]])
  /\ frame' = frame + 1
  /\ UNCHANGED << rpc, yamlDoc, fps, defaultTiming, browser, totalSlides, visited,
                  slideIndex, frameCount, frameIndex, ffmpeg >>
  /\ UNCHANGED << ffmpegInstalled, inputExists, tempDir >>
  /\ UNCHANGED notRender

\* Lines 132-136: one frame of the slide shown is captured.
Screenshot ==
  /\ rpc = "frames"
  /\ frame < frameCount
  /\ shots' = Append(shots, [index |-> frameIndex,
                             slide |-> visited[Len(visited)]])
  /\ frameIndex' = frameIndex + 1
  /\ frame' = frame + 1
  /\ UNCHANGED << rpc, yamlDoc, fps, defaultTiming, browser, totalSlides, visited,
                  slideIndex, frameCount, ffmpeg >>
  /\ UNCHANGED << ffmpegInstalled, inputExists, tempDir >>
  /\ UNCHANGED notRender

\* Lines 132, 142-143, 116: the frames of the slide are captured; on to the
\* next slide.
NextSlide ==
  /\ rpc = "frames"
  /\ frame >= frameCount
  /\ slideIndex' = slideIndex + 1
  /\ rpc' = "slide"
  /\ UNCHANGED << yamlDoc, fps, defaultTiming, browser, totalSlides, visited,
                  frameCount, frame, frameIndex, shots, ffmpeg >>
  /\ UNCHANGED << ffmpegInstalled, inputExists, tempDir >>
  /\ UNCHANGED notRender

\* Lines 116, 145: after the last slide the browser is closed.
CloseBrowser ==
  /\ rpc = "slide"
  /\ slideIndex >= totalSlides
  /\ browser' = "closed"
  /\ rpc' = "encode"
  /\ UNCHANGED << yamlDoc, fps, defaultTiming, totalSlides, visited, slideIndex,
                  frameCount, frame, frameIndex, shots, ffmpeg >>
  /\ UNCHANGED << ffmpegInstalled, inputExists, tempDir >>
  /\ UNCHANGED notRender

\* Lines 149-172: ffmpeg is spawned on the frame files.
SpawnEncoder ==
  /\ rpc = "encode"
  /\ ffmpeg' = Append(ffmpeg, "running")
  /\ rpc' = "encoding"
  /\ UNCHANGED << yamlDoc, fps, defaultTiming, browser, totalSlides, visited,
                  slideIndex, frameCount, frame, frameIndex, shots >>
  /\ UNCHANGED << ffmpegInstalled, inputExists, tempDir >>
  /\ UNCHANGED notRender

\* Lines 173-192, 199-202: ffmpeg ends, with exit code 0, and the directory
\* of the frames is removed, or with another code or an error, and it is
\* left.
EncoderClose ==
  /\ rpc = "encoding"
  /\ ffmpeg' = [ffmpeg EXCEPT ![Len(ffmpeg)] = "closed"]
  /\ \/ rpc' = "saved" /\ tempDir' = "removed"
     \/ rpc' = "failed" /\ tempDir' = tempDir
  /\ UNCHANGED << yamlDoc, fps, defaultTiming, browser, totalSlides, visited,
                  slideIndex, frameCount, frame, frameIndex, shots >>
  /\ UNCHANGED << ffmpegInstalled, inputExists >>
  /\ UNCHANGED notRender

RenderNext ==
  \/ LoadConfig
  \/ CheckFfmpeg
  \/ CheckInput
  \/ MakeTempDir
  \/ LaunchBrowser
  \/ GotoSlide
  \/ Screenshot
  \/ NextSlide
  \/ CloseBrowser
  \/ SpawnEncoder
  \/ EncoderClose

RenderSpec == Init /\ [][RenderNext]_vars

\* The checks of lines 57-72 are statements of the script, run one after
\* the other when it is loaded.
RenderFairSpec == RenderSpec /\ WF_rpc(CheckFfmpeg) /\ WF_rpc(CheckInput)

\* ------------------------------------------------------------------------
\* preview.js
\* ------------------------------------------------------------------------

MaxSegments == 4

\* A path or a URL is the sequence of its characters, as the lines of the
\* outline are; a run of characters that nothing here splits is written as
\* one element ("app" for a, p, p).

\* Line 11: the directory above bin/
projectRoot == << "/", "app" >>

\* Line 23: path.resolve(opts.file), with the default output/slides.html
htmlFile == << "/", "app", "/", "output", "/", "slides.html" >>

\* The files of the machine: the slides and a style sheet in the output
\* directory, a file of the project outside it, a file in a directory next
\* to the project whose name starts with the name of the project directory,
\* and a file above.
Files ==
  { htmlFile,
    << "/", "app", "/", "output", "/", "a.css" >>,
    << "/", "app", "/", "key" >>,
    << "/", "app", "-old", "/", "key" >>,
    << "/", "key" >> }

Directories ==
  { << "/" >>, << "/", "app" >>, << "/", "app", "/", "output" >>,
    << "/", "app", "-old" >> }

\* The segments a request URL is made of
UrlSegments ==
  { << ".." >>, << "output" >>, << "a.css" >>, << "key" >>, << "app" >>,
    << "app", "-old" >> }

\* The URL /seg/seg/... of the segments segs
RECURSIVE UrlOf(_)
UrlOf(segs) ==
  IF segs = <<>> THEN <<>>
  ELSE << "/" >> \o Head(segs) \o UrlOf(Tail(segs))

\* req.url of the requests: / and /slides.html, and the URLs of up to
\* MaxSegments segments.  (Node hands the handler the URL as it was sent,
\* with its .. segments.)
Urls ==
  { << "/" >>, << "/", "slides.html" >> }
    \cup {UrlOf(q) : q \in UNION {[1..n -> UrlSegments] : n \in 1..MaxSegments}}

\* str.startsWith(prefix)
StartsWith(str, prefix) ==
  /\ Len(str) >= Len(prefix)
  /\ SubSeq(str, 1, Len(prefix)) = prefix

\* The segments of the path p between its slashes, read from character k on
\* with cur the segment being read
RECURSIVE SegmentsFrom(_, _, _)
SegmentsFrom(p, k, cur) ==
  IF k > Len(p) THEN << cur >>
  ELSE IF p[k] = "/" THEN << cur >> \o SegmentsFrom(p, k + 1, <<>>)
  ELSE SegmentsFrom(p, k + 1, Append(cur, p[k]))

\* path.normalize on the segments of an absolute path: empty segments and .
\* are dropped, .. takes the segment before it away (none at the root)
RECURSIVE Resolve(_, _)
Resolve(segs, stack) ==
  IF segs = <<>> THEN stack
  ELSE IF Head(segs) = <<>> \/ Head(segs) = << "." >>
  THEN Resolve(Tail(segs), stack)
  ELSE IF Head(segs) = << ".." >>
  THEN Resolve(Tail(segs),
               IF stack = <<>> THEN <<>> ELSE SubSeq(stack, 1, Len(stack) - 1))
  ELSE Resolve(Tail(segs), Append(stack, Head(segs)))

\* The absolute path of the segments segs
PathOf(segs) == IF segs = <<>> THEN << "/" >> ELSE UrlOf(segs)

\* path.join(dir, rest) for an absolute dir
PathJoin(dir, rest) ==
  PathOf(Resolve(SegmentsFrom(dir \o << "/" >> \o rest, 1, <<>>), <<>>))

\* path.dirname(p) for an absolute path
Dirname(p) ==
  LET segs == Resolve(SegmentsFrom(p, 1, <<>>), <<>>) IN
    PathOf(SubSeq(segs, 1, Len(segs) - 1))

\* What no step of preview.js touches
notPreview == << parserVars, renderVars, buildVars, bulletVars, shellVars >>

\* Lines 33-39: the path the handler resolves for req.url
ResolvedPath(url) ==
  IF url # << "/" >> /\ url # << "/", "slides.html" >>
  THEN PathJoin(Dirname(htmlFile), url)
  ELSE htmlFile

\* Lines 32-72: the handler, up to its answer or to the call of fs.readFile.
HandleRequest ==
  /\ vpc = "listen"
  /\ \E url \in Urls :
       /\ reqUrl' = url
       /\ filePath' = ResolvedPath(url)
       /\ IF ~StartsWith(ResolvedPath(url), projectRoot)
          THEN /\ res' = [status |-> 403, body |-> <<>>]
               /\ vpc' = "sent"
          ELSE IF ResolvedPath(url) \notin Files \cup Directories
          THEN /\ res' = [status |-> 404, body |-> <<>>]
               /\ vpc' = "sent"
          ELSE /\ res' = [status |-> 0, body |-> <<>>]
               /\ vpc' = "reading"
  /\ UNCHANGED notPreview

\* Lines 72-80: the callback of fs.readFile: the bytes of the file are
\* sent, or the read failed (always, on a directory).
ReadFileDone ==
  /\ vpc = "reading"
  /\ \/ /\ filePath \in Files
        /\ res' = [status |-> 200, body |-> filePath]
     \/ res' = [status |-> 500, body |-> <<>>]
  /\ vpc' = "sent"
  /\ UNCHANGED << reqUrl, filePath >>
  /\ UNCHANGED notPreview

\* Lines 44, 50, 75, 79: res.end: the response is sent and the request is
\* over; the server waits for the next request.
EndResponse ==
  /\ vpc = "sent"
  /\ vpc' = "listen"
  /\ reqUrl' = <<>>
  /\ filePath' = <<>>
  /\ res' = [status |-> 0, body |-> <<>>]
  /\ UNCHANGED notPreview

PreviewNext ==
  \/ HandleRequest
  \/ ReadFileDone
  \/ EndResponse

PreviewSpec == Init /\ [][PreviewNext]_vars

\* ------------------------------------------------------------------------
\* build.js
\* ------------------------------------------------------------------------

MaxText == 2

\* The markup is the sequence of its characters; a piece of the template is
\* written as one element.

\* The characters escapeHtml replaces
Special == {"&", "<", ">", "\"", "'"}

\* The characters of the texts of the content
Chars == Special \cup {"a"}

Amp == << "&", "a", "m", "p", ";" >>

Lt == << "&", "l", "t", ";" >>

Gt == << "&", "g", "t", ";" >>

Quot == << "&", "q", "u", "o", "t", ";" >>

Apos == << "&", "#", "0", "3", "9", ";" >>

\* Handlebars writes the apostrophe, the backtick and the equals sign so
AposHex == << "&", "#", "x", "2", "7", ";" >>

BackHex == << "&", "#", "x", "6", "0", ";" >>

EqualsHex == << "&", "#", "x", "3", "D", ";" >>

\* str.replace(/ch/g, by) for the character ch
RECURSIVE ReplaceAll(_, _, _)
ReplaceAll(str, ch, by) ==
  IF str = <<>> THEN <<>>
  ELSE (IF Head(str) = ch THEN by ELSE << Head(str) >>)
         \o ReplaceAll(Tail(str), ch, by)

\* Variant of escapeHtml: the ampersand is replaced last.
escapeHtmlAmpLast(str) ==
  ReplaceAll(ReplaceAll(ReplaceAll(ReplaceAll(ReplaceAll(
    str, "<", Lt), ">", Gt), "\"", Quot), "'", Apos), "&", Amp)

\* Lines 127-135: escapeHtml
escapeHtml(str) ==
  ReplaceAll(ReplaceAll(ReplaceAll(ReplaceAll(ReplaceAll(
    str, "&", Amp), "<", Lt), ">", Gt), "\"", Quot), "'", Apos)

\* {{value}} of the template: Handlebars escapes the value, character by
\* character
RECURSIVE EscapeExpression(_)
EscapeExpression(str) ==
  IF str = <<>> THEN <<>>
  ELSE (CASE Head(str) = "&" -> Amp
          [] Head(str) = "<" -> Lt
          [] Head(str) = ">" -> Gt
          [] Head(str) = "\"" -> Quot
          [] Head(str) = "'" -> AposHex
          [] Head(str) = BQ -> BackHex
          [] Head(str) = "=" -> EqualsHex
          [] OTHER -> << Head(str) >>)
         \o EscapeExpression(Tail(str))

\* Lines 104-108: the end of the items nested under an item of the level:
\* the first item from j on that is not deeper, Len(items) + 1 if none
RECURSIVE NestedEnd(_, _, _)
NestedEnd(items, level, j) ==
  IF j > Len(items) \/ items[j].level <= level THEN j
  ELSE NestedEnd(items, level, j + 1)

\* Lines 89-125: renderBullets; RenderItemsFrom is its loop from item k on
RECURSIVE RenderBullets(_, _)
RECURSIVE RenderItemsFrom(_, _, _)
RenderItemsFrom(items, level, k) ==
  IF k > Len(items) THEN <<>>
  ELSE IF items[k].level = level
  THEN LET nested == SubSeq(items, k + 1, NestedEnd(items, level, k + 1) - 1) IN
         << "<li>" >> \o escapeHtml(items[k].text)
           \o (IF nested # <<>> THEN RenderBullets(nested, level + 1) ELSE <<>>)
           \o << "</li>" >>
           \o RenderItemsFrom(items, level,
                              IF nested # <<>>
                              THEN NestedEnd(items, level, k + 1)
                              ELSE k + 1)
  ELSE RenderItemsFrom(items, level, k + 1)

RenderBullets(items, level) ==
  IF items = <<>> THEN <<>>
  ELSE << "<ul>" >> \o RenderItemsFrom(items, level, 1) \o << "</ul>" >>

MaxItems == 3

MaxLevel == 2

\* The bullet lists of up to MaxItems items of levels up to MaxLevel, as
\* parseSlideBlock makes them of bullet lines indented by any width
BulletLists ==
  UNION {[1..n -> [text : {<< "a" >>, << "b" >>}, level : 0..MaxLevel]] :
           n \in 1..MaxItems}

\* Lines 89-125: renderBullets is called with a list, at level 0.
CallRenderBullets ==
  /\ bulletList = <<>>
  /\ bulletList' \in BulletLists
  /\ bulletsHtml' = RenderBullets(bulletList', 0)
  /\ UNCHANGED << parserVars, renderVars, previewVars, buildVars, shellVars >>

BulletsSpec == Init /\ [][CallRenderBullets]_vars

\* Lines 70-87: the renderContent helper
RenderContent(contentItem) ==
  CASE contentItem.type = "bullets" -> RenderBullets(contentItem.items, 0)
    [] contentItem.type = "text" ->
         << "<p>" >> \o escapeHtml(contentItem.text) \o << "</p>" >>
    [] contentItem.type = "image" ->
         << "<img src=\"" >> \o escapeHtml(contentItem.src)
           \o << "\" alt=\"" >> \o escapeHtml(contentItem.alt)
           \o << "\" />" >>
    [] contentItem.type = "code" ->
         << "<pre><code class=\"language-" >>
           \o escapeHtml(contentItem.language) \o << "\">" >>
           \o escapeHtml(contentItem.code) \o << "</code></pre>" >>
    [] OTHER -> <<>>

\* The texts of the content: every text of up to MaxText characters, and
\* the texts of at most one character
UserTexts == UNION {[1..n -> Chars] : n \in 0..MaxText}

ShortTexts == UNION {[1..n -> Chars] : n \in 0..1}

\* A document with every kind of content, its texts being u and v
DocOf(u, v) ==
  [title |-> u,
   subtitle |-> v,
   slides |->
     << [title |-> v,
         content |->
           << [type |-> "bullets",
               items |-> << [text |-> u, level |-> 0],
                            [text |-> v, level |-> 1] >>],
              [type |-> "text", text |-> v],
              [type |-> "image", alt |-> v, src |-> u],
              [type |-> "code", language |-> v, code |-> u] >>] >>]

BuildDocs ==
  {DocOf(u, v) : u \in UserTexts, v \in ShortTexts}
    \cup {DocOf(v, u) : u \in UserTexts, v \in ShortTexts}

\* What no step of build.js touches
notBuild == << parserVars, renderVars, previewVars, bulletVars, shellVars >>

\* The names a theme can have: the default and another
ThemeNames == {"minimal", "dark"}

\* The text of the stylesheet themes/<name>.css
StyleOf(name) == << "themes/", name, ".css" >>

\* Lines 213-252: getDefaultTheme, the embedded stylesheet
getDefaultTheme == << ".reveal { font-family: -apple-system }" >>

\* Lines 23-42: the theme is 'minimal' unless config.yaml or --theme names
\* another; the stylesheets of themes/ that can be read are what the file
\* system holds during the run.
LoadBuildConfig ==
  /\ bpc = "config"
  /\ theme' \in ThemeNames
  /\ themes' \in SUBSET ThemeNames
  /\ bpc' = "read"
  /\ UNCHANGED << buildDoc, html, sectionIndex, itemIndex, themeCSS >>
  /\ UNCHANGED notBuild

\* Lines 44-52: the content YAML is read.
ReadContentYaml ==
  /\ bpc = "read"
  /\ buildDoc' \in BuildDocs
  /\ bpc' = "theme"
  /\ UNCHANGED << html, sectionIndex, itemIndex, theme, themes, themeCSS >>
  /\ UNCHANGED notBuild

\* Lines 48-52: the content YAML cannot be read: process.exit(1).
ReadContentFails ==
  /\ bpc = "read"
  /\ bpc' = "exit1"
  /\ UNCHANGED << buildDoc, html, sectionIndex, itemIndex, theme, themes,
                  themeCSS >>
  /\ UNCHANGED notBuild

\* Lines 54-60: the stylesheet of the theme is read; when it cannot be, a
\* warning is printed and minimal.css is tried.
ReadTheme ==
  /\ bpc = "theme"
  /\ IF theme \in themes
     THEN themeCSS' = StyleOf(theme) /\ bpc' = "head"
     ELSE themeCSS' = themeCSS /\ bpc' = "minimal"
  /\ UNCHANGED << buildDoc, html, sectionIndex, itemIndex, theme, themes >>
  /\ UNCHANGED notBuild

\* Variant of ReadMinimal: without the embedded stylesheet the step exits.
ReadMinimalOrExit ==
  /\ bpc = "minimal"
  /\ IF "minimal" \in themes
     THEN themeCSS' = StyleOf("minimal") /\ bpc' = "head"
     ELSE themeCSS' = themeCSS /\ bpc' = "exit1"
  /\ UNCHANGED << buildDoc, html, sectionIndex, itemIndex, theme, themes >>
  /\ UNCHANGED notBuild

\* Lines 61-66: minimal.css is read; when it cannot be, the stylesheet is
\* the embedded one.
ReadMinimal ==
  /\ bpc = "minimal"
  /\ themeCSS' = IF "minimal" \in themes THEN StyleOf("minimal")
                 ELSE getDefaultTheme
  /\ bpc' = "head"
  /\ UNCHANGED << buildDoc, html, sectionIndex, itemIndex, theme, themes >>
  /\ UNCHANGED notBuild

\* Lines 141-147, 162-173: the head of the page, with the title and the
\* stylesheet, which {{{themeCSS}}} writes as it is.
RenderHead ==
  /\ bpc = "head"
  /\ html' = << "<title>" >> \o EscapeExpression(TemplateTitle(buildDoc))
               \o << "</title>", "<style>" >> \o themeCSS \o << "</style>" >>
  /\ bpc' = "title"
  /\ UNCHANGED << buildDoc, sectionIndex, itemIndex, theme, themes, themeCSS >>
  /\ UNCHANGED notBuild

\* Lines 177-182: the title slide, when there is a title, with the subtitle
\* when there is one.
RenderTitleSlide ==
  /\ bpc = "title"
  /\ html' =
       html \o
         (IF HasTitleSlide(buildDoc)
          THEN << "<section class=\"title-slide\">", "<h1>" >>
                 \o EscapeExpression(TemplateTitle(buildDoc)) \o << "</h1>" >>
                 \o (IF buildDoc.subtitle # <<>>
                     THEN << "<h2>" >> \o EscapeExpression(buildDoc.subtitle)
                            \o << "</h2>" >>
                     ELSE <<>>)
                 \o << "</section>" >>
          ELSE <<>>)
  /\ sectionIndex' = 0
  /\ bpc' = "section"
  /\ UNCHANGED << buildDoc, itemIndex, theme, themes, themeCSS >>
  /\ UNCHANGED notBuild

\* Lines 184-186: the section of the next slide is opened, with the title
\* of the slide when it has one.
OpenSection ==
  /\ bpc = "section"
  /\ sectionIndex < Len(buildDoc.slides)
  /\ html' =
       html \o << "<section data-timing=\"5\">" >>
         \o (IF buildDoc.slides[sectionIndex + 1].title # <<>>
             THEN << "<h2>" >>
                    \o EscapeExpression(buildDoc.slides[sectionIndex + 1].title)
                    \o << "</h2>" >>
             ELSE <<>>)
  /\ itemIndex' = 0
  /\ bpc' = "items"
  /\ UNCHANGED << buildDoc, sectionIndex, theme, themes, themeCSS >>
  /\ UNCHANGED notBuild

\* Lines 187-189: the next content item of the slide is rendered.
RenderContentItem ==
  /\ bpc = "items"
  /\ itemIndex < Len(buildDoc.slides[sectionIndex + 1].content)
  /\ html' = html \o RenderContent(
                        buildDoc.slides[sectionIndex + 1].content[itemIndex + 1])
  /\ itemIndex' = itemIndex + 1
  /\ UNCHANGED << bpc, buildDoc, sectionIndex, theme, themes, themeCSS >>
  /\ UNCHANGED notBuild

\* Lines 189-191: the section is closed.
CloseSection ==
  /\ bpc = "items"
  /\ itemIndex >= Len(buildDoc.slides[sectionIndex + 1].content)
  /\ html' = html \o << "</section>" >>
  /\ sectionIndex' = sectionIndex + 1
  /\ bpc' = "section"
  /\ UNCHANGED << buildDoc, itemIndex, theme, themes, themeCSS >>
  /\ UNCHANGED notBuild

\* Lines 151-159: the page is written.
WriteOutput ==
  /\ bpc = "section"
  /\ sectionIndex >= Len(buildDoc.slides)
  /\ bpc' = "written"
  /\ UNCHANGED << buildDoc, html, sectionIndex, itemIndex, theme, themes,
                  themeCSS >>
  /\ UNCHANGED notBuild

BuildNext ==
  \/ LoadBuildConfig
  \/ ReadContentYaml
  \/ ReadContentFails
  \/ ReadTheme
  \/ ReadMinimal
  \/ RenderHead
  \/ RenderTitleSlide
  \/ OpenSection
  \/ RenderContentItem
  \/ CloseSection
  \/ WriteOutput

BuildSpec == Init /\ [][BuildNext]_vars

\* The step of RenderContentItem seen from the counter of the items alone
ContentItemStep ==
  /\ bpc = "items"
  /\ itemIndex < Len(buildDoc.slides[sectionIndex + 1].content)
  /\ itemIndex' = itemIndex + 1

\* build.js is a script whose statements run one after the other: once the
\* content is read no step of it waits, its file reads being synchronous.
BuildFairSpec ==
  /\ BuildSpec
  /\ WF_bpc(ReadTheme)
  /\ WF_bpc(ReadMinimal)
  /\ WF_bpc(RenderHead)
  /\ WF_bpc(RenderTitleSlide)
  /\ WF_bpc(OpenSection)
  /\ WF_itemIndex(ContentItemStep)
  /\ WF_bpc(CloseSection)
  /\ WF_bpc(WriteOutput)

\* ------------------------------------------------------------------------
\* slides.sh
\* ------------------------------------------------------------------------

\* The commands with a function of their own that writes or runs something
Commands == {"new", "parse", "build", "preview", "render", "all"}

\* The name given to a call: none, or that of the presentation
Names == {"", "my-talk"}

\* The files of a presentation that the stages read and write
Artifacts == {"outline.txt", "slides.yaml", "slides.html", "slides.mp4"}

\* Lines 166, 197, 219, 242: the file a node script is given to read
InputOf(script) ==
  CASE script = "bin/parse.js" -> "outline.txt"
    [] script = "bin/build.js" -> "slides.yaml"
    [] script = "bin/preview.js" -> "slides.html"
    [] script = "bin/render.js" -> "slides.html"

\* Lines 166, 197, 242: the file a node script writes when it ends well; the
\* preview server writes none
OutputOf(script) ==
  CASE script = "bin/parse.js" -> {"slides.yaml"}
    [] script = "bin/build.js" -> {"slides.html"}
    [] script = "bin/preview.js" -> {}
    [] script = "bin/render.js" -> {"slides.mp4"}

\* What no step of slides.sh touches
notShell == << parserVars, renderVars, previewVars, buildVars, bulletVars >>

\* exit n
Exit(n) ==
  /\ spc' = "exited"
  /\ exitStatus' = n
  /\ UNCHANGED << COMMAND, NAME, presFiles, nodeRuns >>

\* The check of a stage for its name and for its input file, and the call of
\* node on its script: exit 1 without a name or without the file.
Stage(script) ==
  IF NAME = "" \/ InputOf(script) \notin presFiles
  THEN Exit(1)
  ELSE /\ nodeRuns' = Append(nodeRuns, [script |-> script, found |-> presFiles,
                                        code |-> -1])
       /\ spc' = "node"
       /\ UNCHANGED << COMMAND, NAME, presFiles, exitStatus >>

\* Lines 329-379: the script is called with a command and a name, and the
\* function of the command is called.
RunCommand ==
  /\ spc = "prompt"
  /\ COMMAND' \in Commands
  /\ NAME' \in Names
  /\ spc' = "cmd_" \o COMMAND'
  /\ nodeRuns' = <<>>
  /\ exitStatus' = -1
  /\ UNCHANGED presFiles
  /\ UNCHANGED notShell

\* Lines 68-145: cmd_new makes the directory and writes outline.txt, unless
\* the directory is there and the answer to its question is not y; the
\* config.yaml it writes is read by no stage.
cmd_new ==
  /\ spc = "cmd_new"
  /\ IF NAME = ""
     THEN Exit(1)
     ELSE /\ \/ presFiles' = presFiles \cup {".", "outline.txt"}
             \/ "." \in presFiles /\ presFiles' = presFiles
          /\ spc' = "exited"
          /\ exitStatus' = 0
          /\ UNCHANGED << COMMAND, NAME, nodeRuns >>
  /\ UNCHANGED notShell

\* Lines 147-168: cmd_parse up to its call of node
cmd_parse ==
  /\ spc = "cmd_parse"
  /\ Stage("bin/parse.js")
  /\ UNCHANGED notShell

\* Lines 170-199: cmd_build up to its call of node
cmd_build ==
  /\ spc = "cmd_build"
  /\ Stage("bin/build.js")
  /\ UNCHANGED notShell

\* Lines 201-220: cmd_preview up to its call of node
cmd_preview ==
  /\ spc = "cmd_preview"
  /\ Stage("bin/preview.js")
  /\ UNCHANGED notShell

\* Lines 222-244: cmd_render up to its call of node
cmd_render ==
  /\ spc = "cmd_render"
  /\ Stage("bin/render.js")
  /\ UNCHANGED notShell

\* Lines 246-255: cmd_all up to its call of cmd_parse
cmd_all ==
  /\ spc = "cmd_all"
  /\ IF NAME = ""
     THEN Exit(1)
     ELSE /\ spc' = "cmd_parse"
          /\ UNCHANGED << COMMAND, NAME, presFiles, nodeRuns, exitStatus >>
  /\ UNCHANGED notShell

\* Variant of NodeExit: the call goes on after a script that failed, as
\* without set -e.
NodeExitGoesOn ==
  /\ spc = "node"
  /\ \E n \in {0, 1} :
       LET run == nodeRuns[Len(nodeRuns)] IN
         /\ nodeRuns' = [nodeRuns EXCEPT ![Len(nodeRuns)].code = n]
         /\ presFiles' = IF n = 0 THEN presFiles \cup OutputOf(run.script)
                         ELSE presFiles
         /\ IF COMMAND = "all" /\ run.script = "bin/parse.js"
            THEN spc' = "cmd_build" /\ exitStatus' = exitStatus
            ELSE spc' = "exited" /\ exitStatus' = 0
  /\ UNCHANGED << COMMAND, NAME >>
  /\ UNCHANGED notShell

\* Lines 6, 166-167, 197-198, 219, 242-243, 255-260: the node script ends.
\* With code 0 it has written its output, and the function goes on to its
\* end, where cmd_all calls cmd_build after cmd_parse; with another code
\* set -e ends the call with that code.
NodeExit ==
  /\ spc = "node"
  /\ \E n \in {0, 1} :
       LET run == nodeRuns[Len(nodeRuns)] IN
         /\ nodeRuns' = [nodeRuns EXCEPT ![Len(nodeRuns)].code = n]
         /\ presFiles' = IF n = 0 THEN presFiles \cup OutputOf(run.script)
                         ELSE presFiles
         /\ IF n # 0
            THEN spc' = "exited" /\ exitStatus' = n
            ELSE IF COMMAND = "all" /\ run.script = "bin/parse.js"
            THEN spc' = "cmd_build" /\ exitStatus' = exitStatus
            ELSE spc' = "exited" /\ exitStatus' = 0
  /\ UNCHANGED << COMMAND, NAME >>
  /\ UNCHANGED notShell

\* The call is over; the next one starts anew.
Prompt ==
  /\ spc = "exited"
  /\ spc' = "prompt"
  /\ COMMAND' = ""
  /\ NAME' = ""
  /\ nodeRuns' = <<>>
  /\ exitStatus' = -1
  /\ UNCHANGED presFiles
  /\ UNCHANGED notShell

\* Between two calls a file of the presentation is removed by hand.
RemoveFile ==
  /\ spc = "prompt"
  /\ \E file \in presFiles \cap Artifacts : presFiles' = presFiles \ {file}
  /\ UNCHANGED << spc, COMMAND, NAME, nodeRuns, exitStatus >>
  /\ UNCHANGED notShell

ShellNext ==
  \/ RunCommand
  \/ cmd_new
  \/ cmd_parse
  \/ cmd_build
  \/ cmd_preview
  \/ cmd_render
  \/ cmd_all
  \/ NodeExit
  \/ Prompt
  \/ RemoveFile

ShellSpec == Init /\ [][ShellNext]_vars

\* ------------------------------------------------------------------------
\* The outline seen from its lines
\* ------------------------------------------------------------------------

ThreeHyphens == <<"-", "-", "-">>

Min(S) == CHOOSE x \in S : \A y \in S : x <= y

Max(S) == CHOOSE x \in S : \A y \in S : x >= y

\* The lines of t that are three hyphens and nothing else
ExactSeparators(t) == {k \in 1..Len(t) : t[k] = ThreeHyphens}

\* The lines of t that are three hyphens with optional whitespace around
LooseSeparators(t) == {k \in 1..Len(t) : Trim(t[k]) = ThreeHyphens}

\* Number of the segment of line k when the lines seps separate: the number
\* of separators above it
Segment(seps, k) == Cardinality({s \in seps : s < k})

\* The lines of t with content: neither blank nor a separator
ContentLines(t, seps) == {k \in 1..Len(t) : k \notin seps /\ ~IsBlank(t[k])}

\* The segments of t that hold a line with content
NonEmptySegments(t, seps) == {Segment(seps, k) : k \in ContentLines(t, seps)}

\* The lines with content of the j-th non-empty segment of t
SegmentLines(t, seps, j) ==
  LET segs == NonEmptySegments(t, seps) IN
    {k \in ContentLines(t, seps) :
       Cardinality({g \in segs : g <= Segment(seps, k)}) = j}

\* blocks are the non-empty segments of t, in order, when the lines seps
\* separate: block j spans the lines from the first to the last line with
\* content of segment j (so it holds no separator and no line of another
\* segment), each line as written up to the whitespace at its ends.
BlocksAreSegments(t, seps) ==
  /\ Len(blocks) = Cardinality(NonEmptySegments(t, seps))
  /\ \A j \in 1..Len(blocks) :
       LET ks == SegmentLines(t, seps, j) IN
         /\ ks # {}
         /\ Len(blocks[j]) = Max(ks) - Min(ks) + 1
         /\ \A k \in 1..Len(blocks[j]) :
              Trim(blocks[j][k]) = Trim(t[Min(ks) + k - 1])

Split == pc \notin {"read", "start"}

\* ------------------------------------------------------------------------
\* C1
\* ------------------------------------------------------------------------

InLoop(p) == p \in {"title", "content", "fence"}

\* C1: parseOutline terminates for every outline text: in parseSlideBlock
\* every iteration that stays in its loop (title scan, content loop, fence
\* loop) moves the cursor i forward by one, no step moves it back, i never
\* passes lines.length + 1, and once parseOutline is called the parse
\* reaches its end with a document.
C1_Terminates ==
  /\ [][InLoop(pc) /\ InLoop(pc') =>
          /\ i' >= i
          /\ i' <= Len(lines) + 1
          /\ (pc' = pc => i' = i + 1)]_vars
  /\ (pc = "start") ~> (pc = "done")

\* C1: the parse of an outline whose last block ends in an open fence has
\* ended, the cursor one past the end of the lines.
C1_Witness ==
  /\ pc = "done"
  /\ Len(result.slides) >= 1
  /\ i = Len(lines) + 1

\* ------------------------------------------------------------------------
\* C2
\* ------------------------------------------------------------------------

\* C2 as stated: every line that is three hyphens with optional whitespace
\* around separates slides, the text before and after it is in different
\* blocks and the line is in no block.
C2_LooseSeparator == Split => BlocksAreSegments(text, LooseSeparators(text))

\* C2 amended: exactly the lines that are three hyphens and nothing else
\* separate slides: the text before and after such a line is in different
\* blocks and the line is in no block.
C2_ExactSeparator == Split => BlocksAreSegments(text, ExactSeparators(text))

\* C2: a text with a separator between two lines with content is split.
C2_Witness ==
  /\ Split
  /\ Len(blocks) = 2
  /\ \E k \in ExactSeparators(text) :
       /\ \E a \in 1..(k - 1) : ~IsBlank(text[a])
       /\ \E c \in (k + 1)..Len(text) : ~IsBlank(text[c])

\* ------------------------------------------------------------------------
\* C3, C4
\* ------------------------------------------------------------------------

\* A heading of level n: n "#", whitespace, then text
IsHeading(line, n) == HeadAt(line, n) /\ ~IsBlank(Slice(line, n))

HeadingText(line, n) == Trim(Slice(line, n))

\* The text of the first heading of level n of block, empty if it has none
FirstHeading(block, n) ==
  LET ks == {k \in 1..Len(block) : IsHeading(block[k], n)} IN
    IF ks = {} THEN <<>> ELSE HeadingText(block[Min(ks)], n)

\* Every non-blank line of block is a heading of level 1 or 2
OnlyHeadings(block) ==
  \A k \in 1..Len(block) :
    IsBlank(block[k]) \/ IsHeading(block[k], 1) \/ IsHeading(block[k], 2)

\* Some non-blank line of block does not start as a heading of level 1 or 2
HasOtherLine(block) ==
  \E k \in 1..Len(block) :
    ~IsBlank(block[k]) /\ ~HeadAt(block[k], 1) /\ ~HeadAt(block[k], 2)

\* The first line of block that starts as a heading of level n, 0 if none
FirstHeadAt(block, n) ==
  LET ks == {k \in 1..Len(block) : HeadAt(block[k], n)} IN
    IF ks = {} THEN 0 ELSE Min(ks)

\* Lines 81-99 have run on a first block
TitlesTaken ==
  /\ pc \in {"blocks", "title", "content", "fence", "done"}
  /\ blocks # <<>>

\* C3: when every non-blank line of the first block is a heading of level 1
\* or 2, the document's title is the text of the block's first level-1
\* heading, its subtitle the text of the first level-2 heading, and the block
\* gives no slide: the slides are built from the blocks after it.
C3_TitleBlock ==
  (TitlesTaken /\ OnlyHeadings(blocks[1])) =>
    /\ result.title = FirstHeading(blocks[1], 1)
    /\ result.subtitle = FirstHeading(blocks[1], 2)
    /\ slideBlocks = Tail(blocks)
    /\ (pc = "done" => Len(result.slides) = Len(blocks) - 1)

\* C3: a title block with title and subtitle, followed by no slide.
C3_Witness ==
  /\ pc = "done"
  /\ Len(blocks) = 1
  /\ OnlyHeadings(blocks[1])
  /\ result.title # <<>>
  /\ result.subtitle # <<>>
  /\ result.slides = <<>>

FirstNonBlank(block) ==
  LET ks == {k \in 1..Len(block) : ~IsBlank(block[k])} IN
    IF ks = {} THEN 0 ELSE Min(ks)

\* The title a slide block gives its slide: its first non-blank line when
\* that is a level-1 heading
BlockTitle(block) ==
  LET k == FirstNonBlank(block) IN
    IF k # 0 /\ IsTitleLine(Trim(block[k])) THEN TitleText(Trim(block[k]))
    ELSE <<>>

\* The first line of content of a slide block, 0 if none
FirstContent(block) ==
  LET f == FirstNonBlank(block)
      from == IF f # 0 /\ IsTitleLine(Trim(block[f])) THEN f + 1 ELSE f
      ks == {k \in from..Len(block) : k >= 1 /\ ~IsBlank(block[k])}
  IN IF ks = {} THEN 0 ELSE Min(ks)

\* The kind of the first content block a slide block gives
BlockFirstKind(block) ==
  LET k == FirstContent(block) IN
    IF k = 0 THEN "none"
    ELSE IF IsImage(Trim(block[k])) THEN "image"
    ELSE IF IsBullet(block[k]) THEN "bullets"
    ELSE IF IsFence(Trim(block[k])) THEN "code"
    ELSE "text"

SlideFirstKind(s) == IF s.content = <<>> THEN "none" ELSE s.content[1].type

\* C5: the slides of the document are the non-empty blocks of the outline,
\* one slide per block and in the order of the blocks, without the first
\* block when it is a title block; N separators with N + 1 non-empty
\* segments give N + 1 blocks, and without a non-empty block there is no
\* slide.
C5_SlidesFollowBlocks ==
  pc = "done" =>
    LET seps == ExactSeparators(text)
        n == Cardinality(NonEmptySegments(text, seps))
        skip == IF n > 0 /\ IsTitleOnly(blocks[1]) THEN 1 ELSE 0
    IN /\ Len(blocks) = n
       /\ (Cardinality(seps) + 1 = n => Len(blocks) = Cardinality(seps) + 1)
       /\ Len(result.slides) = n - skip
       /\ \A j \in 1..Len(result.slides) :
            /\ result.slides[j].title = BlockTitle(blocks[j + skip])
            /\ SlideFirstKind(result.slides[j])
                 = BlockFirstKind(blocks[j + skip])

\* C5: one separator, two non-empty segments, two slides that differ.
C5_Witness ==
  /\ pc = "done"
  /\ Cardinality(ExactSeparators(text)) = 1
  /\ Len(blocks) = 2
  /\ Len(result.slides) = 2
  /\ SlideFirstKind(result.slides[1]) # SlideFirstKind(result.slides[2])

\* ------------------------------------------------------------------------
\* A slide block seen from its lines
\* ------------------------------------------------------------------------

\* parseSlideBlock has returned: lines is the block it parsed, slide the
\* slide it made of it.
Parsed == pc \in {"blocks", "done"} /\ b >= 1

\* The first line the content loop reads: the line after the title, or the
\* first non-blank line when it is no title
ContentFrom(ls) ==
  LET f == FirstNonBlank(ls) IN
    IF f = 0 THEN Len(ls) + 1
    ELSE IF IsTitleLine(Trim(ls[f])) THEN f + 1
    ELSE f

\* A fence is open above line k: the number of fence lines between the start
\* of the content and line k is odd.
InFence(ls, k) ==
  Cardinality({m \in ContentFrom(ls)..(k - 1) : IsFence(Trim(ls[m]))}) % 2 = 1

\* Line k is read by the content loop, outside any fence
Scanned(ls, k) == k >= ContentFrom(ls) /\ k <= Len(ls) /\ ~InFence(ls, k)

BulletAt(ls, k) == Scanned(ls, k) /\ IsBullet(ls[k])

ImageAt(ls, k) == Scanned(ls, k) /\ IsImage(Trim(ls[k]))

OpenerAt(ls, k) == Scanned(ls, k) /\ IsFence(Trim(ls[k]))

ParagraphAt(ls, k) ==
  /\ Scanned(ls, k)
  /\ ~IsBlank(ls[k])
  /\ ~IsBullet(ls[k])
  /\ ~IsImage(Trim(ls[k]))
  /\ ~IsFence(Trim(ls[k]))

\* The first lines of the maximal runs of bullet lines
RunStarts(ls) ==
  {k \in 1..Len(ls) : BulletAt(ls, k) /\ ~(k > 1 /\ BulletAt(ls, k - 1))}

\* The last line of the run that starts at line k
RunEnd(ls, k) == Max({e \in k..Len(ls) : \A m \in k..e : BulletAt(ls, m)})

Openers(ls) == {k \in 1..Len(ls) : OpenerAt(ls, k)}

\* The closing fence of the opener at line k, 0 if the fence is not closed
Closer(ls, k) ==
  LET cs == {c \in (k + 1)..Len(ls) : IsFence(Trim(ls[c]))} IN
    IF cs = {} THEN 0 ELSE Min(cs)

\* The j-th smallest element of the set S of numbers
Nth(S, j) == CHOOSE x \in S : Cardinality({y \in S : y < x}) = j - 1

OfType(content, type) == SelectSeq(content, LAMBDA c : c.type = type)

\* ------------------------------------------------------------------------
\* C6
\* ------------------------------------------------------------------------

\* C6: in a slide block every maximal run of consecutive bullet lines (read
\* by the content loop, so outside code fences) is exactly one bullets block
\* with the items of the run in source order, each with its own level,
\* whatever the levels are; the lists of the content are these runs in order.
C6_OneListPerRun ==
  Parsed =>
    LET lists == OfType(slide.content, "bullets")
        starts == RunStarts(lines)
    IN /\ Len(lists) = Cardinality(starts)
       /\ \A j \in 1..Len(lists) :
            LET k == Nth(starts, j) IN
              lists[j].items =
                [m \in 1..(RunEnd(lines, k) - k + 1) |->
                   [text |-> BulletText(lines[k + m - 1]),
                    level |-> LeadingWs(lines[k + m - 1]) \div 2]]

\* C6: a run of bullets whose levels fall, or skip a level, is one list.
C6_Witness ==
  /\ Parsed
  /\ \E j \in 1..Len(slide.content) :
       /\ slide.content[j].type = "bullets"
       /\ Len(slide.content[j].items) >= 2
       /\ LET it == slide.content[j].items IN
            \/ it[1].level > it[2].level
            \/ it[2].level > it[1].level + 1

\* ------------------------------------------------------------------------
\* C7
\* ------------------------------------------------------------------------

\* The line of the outline that is the first line of the block just parsed
BlockOrigin ==
  LET j == b + (Len(blocks) - Len(slideBlocks)) IN
    Min(SegmentLines(text, ExactSeparators(text), j))

\* C7 as stated: the level of every bullet item is floor(w / 2), w the number
\* of leading whitespace characters of its line as written in the outline,
\* the first line of a block included.
C7_LevelFromOutline ==
  Parsed =>
    LET lists == OfType(slide.content, "bullets")
        starts == RunStarts(lines)
    IN \A j \in 1..Len(lists) :
         \A m \in 1..Len(lists[j].items) :
           /\ lists[j].items[m].level >= 0
           /\ lists[j].items[m].level =
                LeadingWs(text[BlockOrigin + Nth(starts, j) + m - 2]) \div 2

\* ------------------------------------------------------------------------
\* C8
\* ------------------------------------------------------------------------

NoEmptyBlock(content) ==
  \A j \in 1..Len(content) :
    /\ content[j].type = "bullets" => Len(content[j].items) > 0
    /\ content[j].type = "text" => content[j].text # <<>>

\* C8: no slide content, of the slide being built or of a slide of the
\* document, holds a bullets block without items or a paragraph without
\* text.
C8_NoEmptyBlock ==
  /\ NoEmptyBlock(slide.content)
  /\ \A j \in 1..Len(result.slides) : NoEmptyBlock(result.slides[j].content)

\* C8: a slide with a blank line read while no bullet was pending, and with
\* a bullets block and a paragraph.
C8_Witness ==
  /\ pc = "done"
  /\ \E j \in 1..Len(result.slides) :
       LET c == result.slides[j].content IN
         /\ \E k \in 1..Len(c) : c[k].type = "bullets"
         /\ \E k \in 1..Len(c) : c[k].type = "text"
  /\ \E k \in 2..Len(lines) : IsBlank(lines[k]) /\ ~BulletAt(lines, k - 1)

\* ------------------------------------------------------------------------
\* C9, C10
\* ------------------------------------------------------------------------

\* The language of the fence opened by line
OpenerLanguage(line) ==
  LET after == Trim(Slice(Trim(line), 3)) IN
    IF after = <<>> THEN <<"t", "e", "x", "t">> ELSE after

\* C9: every opening fence gives exactly one code block, in source order;
\* when the fence is closed its code is the lines between the two fences as
\* written, joined with line breaks, and its language the trimmed text after
\* the opening backticks, "text" if there is none; the lines inside the fence
\* and the closing fence give no block of their own: the content has one
\* block per bullet run, image, opening fence and paragraph outside fences.
C9_FenceIsOneCodeBlock ==
  Parsed =>
    LET codes == OfType(slide.content, "code")
        opens == Openers(lines)
    IN /\ Len(codes) = Cardinality(opens)
       /\ \A j \in 1..Len(codes) :
            LET k == Nth(opens, j)
                c == Closer(lines, k)
            IN c # 0 =>
                 /\ codes[j].code = Join(SubSeq(lines, k + 1, c - 1))
                 /\ codes[j].language = OpenerLanguage(lines[k])
       /\ Len(slide.content) =
            Cardinality(RunStarts(lines)) + Cardinality(opens)
              + Cardinality({k \in 1..Len(lines) : ImageAt(lines, k)})
              + Cardinality({k \in 1..Len(lines) : ParagraphAt(lines, k)})

\* C9: a closed fence around an indented line that would be a bullet.
C9_Witness ==
  /\ Parsed
  /\ \E k \in Openers(lines) :
       /\ Closer(lines, k) = k + 2
       /\ IsBullet(lines[k + 1])
       /\ LeadingWs(lines[k + 1]) > 0
  /\ Len(OfType(slide.content, "code")) = 1

\* C10: when a fence is open at the end of the block, the parse of the block
\* still ends with a slide: the last block of its content is the one code
\* block of that fence, with all the lines after the opening fence as its
\* code.
C10_OpenFenceToEnd ==
  Parsed =>
    \A k \in Openers(lines) :
      Closer(lines, k) = 0 =>
        LET codes == OfType(slide.content, "code") IN
          /\ k = Max(Openers(lines))
          /\ Len(codes) = Cardinality(Openers(lines))
          /\ slide.content # <<>>
          /\ slide.content[Len(slide.content)] = codes[Len(codes)]
          /\ codes[Len(codes)].code
               = Join(SubSeq(lines, k + 1, Len(lines)))
          /\ Len(result.slides) = b
          /\ result.slides[b] = slide

\* C10: an open fence that takes two lines to the end of its block.
C10_Witness ==
  /\ Parsed
  /\ \E k \in Openers(lines) :
       /\ Closer(lines, k) = 0
       /\ k + 2 = Len(lines)
       /\ ~IsBlank(lines[k + 1])
  /\ i = Len(lines) + 1

\* ------------------------------------------------------------------------
\* C11
\* ------------------------------------------------------------------------

\* The content block that starts on line k of a slide block has the kind and
\* the text of that line.
BlockOfLine(c, line) ==
  IF IsImage(Trim(line))
  THEN c = [type |-> "image", alt |-> ImageAlt(Trim(line)),
            src |-> ImageSrc(Trim(line))]
  ELSE IF IsBullet(line)
  THEN /\ c.type = "bullets"
       /\ c.items[1].text = BulletText(line)
  ELSE IF IsFence(Trim(line))
  THEN /\ c.type = "code"
       /\ c.language = OpenerLanguage(line)
  ELSE c = [type |-> "text", text |-> Trim(line)]

\* The number of content blocks the lines of a slide block give: one per
\* bullet run, image line, fence and paragraph line read by the content loop
BlockCount(ls) ==
  Cardinality(RunStarts(ls)) + Cardinality(Openers(ls))
    + Cardinality({k \in 1..Len(ls) : ImageAt(ls, k) \/ ParagraphAt(ls, k)})

\* C11: the title of a slide is the heading text of the first non-blank line
\* of its block exactly when that line is a level-1 heading; otherwise the
\* slide has no title and that line gives the first content block; blank
\* lines above it give no content.
C11_TitleIsFirstHeading ==
  Parsed =>
    LET f == FirstNonBlank(lines) IN
      IF f = 0
      THEN slide = EmptySlide
      ELSE /\ IsTitleLine(Trim(lines[f])) <=> slide.title # <<>>
           /\ IsTitleLine(Trim(lines[f])) =>
                slide.title = TitleText(Trim(lines[f]))
           /\ ~IsTitleLine(Trim(lines[f])) =>
                /\ slide.content # <<>>
                /\ BlockOfLine(slide.content[1], lines[f])
           /\ Len(slide.content) = BlockCount(lines)

\* C11: blank lines, then a line that is no heading: no title, and the line
\* is content.
C11_Witness ==
  /\ Parsed
  /\ Len(lines) >= 2
  /\ IsBlank(lines[1])
  /\ FirstNonBlank(lines) > 1
  /\ ~IsTitleLine(Trim(lines[FirstNonBlank(lines)]))
  /\ slide.title = <<>>
  /\ Len(slide.content) = 1

\* ------------------------------------------------------------------------
\* C12
\* ------------------------------------------------------------------------

\* The item a bullet line gives
ItemOf(line) == [text |-> BulletText(line), level |-> BulletLevel(line)]

\* Line k is a blank line read by the content loop, with a bullet line above
\* and a bullet line below.
BlankBetweenBullets(ls, k) ==
  /\ k > 1
  /\ k < Len(ls)
  /\ Scanned(ls, k)
  /\ IsBlank(ls[k])
  /\ BulletAt(ls, k - 1)
  /\ BulletAt(ls, k + 1)

\* C12: a blank line between two groups of bullet lines parts them: the
\* list that ends with the bullet above the blank line is followed in the
\* content by another list, which starts with the bullet below it; and a
\* blank line read while no bullet is pending leaves the content as it is.
C12_BlankLineFlushes ==
  /\ [](Parsed =>
         \A k \in 1..Len(lines) :
           BlankBetweenBullets(lines, k) =>
             LET j == BlockCount(SubSeq(lines, 1, k)) IN
               /\ j >= 1
               /\ j < Len(slide.content)
               /\ slide.content[j].type = "bullets"
               /\ slide.content[j + 1].type = "bullets"
               /\ slide.content[j].items[Len(slide.content[j].items)]
                    = ItemOf(lines[k - 1])
               /\ slide.content[j + 1].items[1] = ItemOf(lines[k + 1]))
  /\ [][(/\ pc = "content"
         /\ i < Len(lines)
         /\ IsBlank(lines[i + 1])
         /\ currentBullets = <<>>) => slide' = slide]_vars

\* C12: a block of a bullet, a blank line and a bullet gave two lists.
C12_Witness ==
  /\ Parsed
  /\ \E k \in 1..Len(lines) : BlankBetweenBullets(lines, k)
  /\ Len(slide.content) = 2
  /\ slide.content[1].type = "bullets"
  /\ slide.content[2].type = "bullets"

\* ------------------------------------------------------------------------
\* C13
\* ------------------------------------------------------------------------

\* The lines of a slide block on which a content block starts: the first
\* line of each bullet run, and each image, fence and paragraph line
BlockStarts(ls) ==
  RunStarts(ls) \cup Openers(ls)
    \cup {k \in 1..Len(ls) : ImageAt(ls, k) \/ ParagraphAt(ls, k)}

\* The line read next ends a bullet run and gives a block of its own.
EndsRun(line) == ~IsBlank(line) /\ (IsImage(Trim(line)) \/ ~IsBullet(line))

\* C13: the content of a slide is in source order: its j-th block is the
\* block of the j-th line on which a block starts; and when an image, fence
\* or paragraph line is read while bullets are pending, the pending list is
\* appended to the content first, before anything of that line.
C13_SourceOrder ==
  /\ [](Parsed =>
         /\ Len(slide.content) = Cardinality(BlockStarts(lines))
         /\ \A j \in 1..Len(slide.content) :
              BlockOfLine(slide.content[j], lines[Nth(BlockStarts(lines), j)]))
  /\ [][(/\ pc = "content"
         /\ i < Len(lines)
         /\ EndsRun(lines[i + 1])
         /\ currentBullets # <<>>)
        => /\ Len(slide'.content) > Len(slide.content)
           /\ slide'.content[Len(slide.content) + 1]
                = [type |-> "bullets", items |-> currentBullets]
           /\ SubSeq(slide'.content, 1, Len(slide.content)) = slide.content
           /\ currentBullets' = <<>>]_vars

\* C13: a bullet run, then an image, a fence or a paragraph: the list is
\* before the other block.
C13_Witness ==
  /\ Parsed
  /\ Len(slide.content) >= 2
  /\ slide.content[1].type = "bullets"
  /\ slide.content[2].type \in {"image", "code", "text"}

\* ------------------------------------------------------------------------
\* C14
\* ------------------------------------------------------------------------

ImageLines(ls) == {k \in 1..Len(ls) : ImageAt(ls, k)}

ParagraphLines(ls) == {k \in 1..Len(ls) : ParagraphAt(ls, k)}

\* C14: the image blocks of a slide are its image lines, one block per
\* line and in the order of the lines, with the alt and src of the line;
\* its paragraphs are its paragraph lines, one paragraph per line and in
\* the order of the lines, the text being the trimmed line.
C14_OneBlockPerLine ==
  Parsed =>
    LET images == OfType(slide.content, "image")
        texts == OfType(slide.content, "text")
    IN /\ images =
            [j \in 1..Cardinality(ImageLines(lines)) |->
               LET line == Trim(lines[Nth(ImageLines(lines), j)]) IN
                 [type |-> "image", alt |-> ImageAlt(line), src |-> ImageSrc(line)]]
       /\ texts =
            [j \in 1..Cardinality(ParagraphLines(lines)) |->
               [type |-> "text",
                text |-> Trim(lines[Nth(ParagraphLines(lines), j)])]]

\* C14: two image lines in a row gave two images, two paragraph lines in a
\* row two paragraphs.
C14_Witness ==
  /\ Parsed
  /\ \E k \in 1..(Len(lines) - 1) :
       \/ /\ ImageAt(lines, k)
          /\ ImageAt(lines, k + 1)
          /\ Len(OfType(slide.content, "image")) = 2
          /\ Len(OfType(slide.content, "text")) = 1
       \/ /\ ParagraphAt(lines, k)
          /\ ParagraphAt(lines, k + 1)
          /\ Len(OfType(slide.content, "text")) = 2
          /\ Len(OfType(slide.content, "image")) = 1

\* ------------------------------------------------------------------------
\* C15
\* ------------------------------------------------------------------------

\* The segments of t that hold lines and only blank lines
BlankSegments(t, seps) ==
  {Segment(seps, k) : k \in {m \in 1..Len(t) : m \notin seps}}
    \ NonEmptySegments(t, seps)

\* The slides of the document without title and without content
EmptySlides == {j \in 1..Len(result.slides) : result.slides[j] = EmptySlide}

\* C15 as stated: a segment of the outline that holds only blank lines
\* gives a slide without title and with empty content.
C15_BlankBlockIsSlide ==
  pc = "done" =>
    Cardinality(EmptySlides)
      >= Cardinality(BlankSegments(text, ExactSeparators(text)))

\* C15: a segment of the outline that holds only blank lines gives no
\* block and no slide: the blocks are the segments with content, no block
\* is empty, and no slide of the document is without title and content.
C15_BlankBlockDropped ==
  pc = "done" =>
    /\ Len(blocks) = Cardinality(NonEmptySegments(text, ExactSeparators(text)))
    /\ \A j \in 1..Len(blocks) : FirstNonBlank(blocks[j]) = 1
    /\ Len(result.slides) <= Len(blocks)
    /\ EmptySlides = {}

\* C15: an outline with a blank segment and with slides.
C15_Witness ==
  /\ pc = "done"
  /\ BlankSegments(text, ExactSeparators(text)) # {}
  /\ result.slides # <<>>

\* ------------------------------------------------------------------------
\* C16
\* ------------------------------------------------------------------------

\* C16: parseOutline returns the same document for the same text, whatever
\* was parsed before: the document of a call equals the document of every
\* earlier call on the same text, and any two earlier calls on one text
\* returned equal documents.
C16_SameTextSameDocument ==
  /\ pc = "done" =>
       \A j \in 1..Len(previous) :
         previous[j].text = text => previous[j].result = result
  /\ \A j, k \in 1..Len(previous) :
       previous[j].text = previous[k].text
         => previous[j].result = previous[k].result

\* C16: a text with slides was parsed, then another text, then the first
\* text again.
C16_Witness ==
  /\ pc = "done"
  /\ Len(previous) = 2
  /\ previous[1].text = text
  /\ previous[2].text # text
  /\ previous[2].result # result
  /\ result.slides # <<>>

\* ------------------------------------------------------------------------
\* C17
\* ------------------------------------------------------------------------

\* The capture pass of render.js is over.
Captured == rpc \in {"encode", "encoding", "saved", "failed"}

\* The section of the page that shows slide k (1..) of the content document,
\* counted from 0 as Reveal counts: the title slide, if any, is before it
SectionOf(doc, k) == k - 1 + (PageSections(doc) - Len(doc.slides))

\* The number of frames captured while section x was on the page
FramesOf(x) == Cardinality({n \in 1..Len(shots) : shots[n].slide = x})

\* The seconds slide k of the content document is to be shown: its own
\* timing, or the default
OwnTiming(doc, k) ==
  IF doc.slides[k].timing # NoTiming THEN doc.slides[k].timing
  ELSE defaultTiming

\* C17 as stated: for every slide of the content document the number of
\* frames captured of that slide is round(t * fps), t the slide's own
\* timing or else the default, also when the page has a title slide.
C17_OwnTiming ==
  Captured =>
    \A k \in 1..Len(yamlDoc.slides) :
      FramesOf(SectionOf(yamlDoc, k)) = Round(OwnTiming(yamlDoc, k), fps)

\* ------------------------------------------------------------------------
\* C20
\* ------------------------------------------------------------------------

\* C20: the slides are visited in the order 0, 1, 2, ..., each once; the
\* k-th screenshot is frame file k - 1; the frames of a slide come before
\* the frames of the next slide; at most one encoder is spawned, and when
\* it is, every slide has been visited, every frame captured and the
\* browser closed.
C20_CaptureInOrder ==
  /\ visited = [n \in 1..Len(visited) |-> n - 1]
  /\ Len(visited) <= totalSlides
  /\ \A n \in 1..Len(shots) : shots[n].index = n - 1
  /\ frameIndex = Len(shots)
  /\ \A n \in 1..(Len(shots) - 1) : shots[n].slide <= shots[n + 1].slide
  /\ Len(ffmpeg) <= 1
  /\ ffmpeg # <<>> =>
       /\ browser = "closed"
       /\ Len(visited) = totalSlides
       /\ rpc \in {"encoding", "saved", "failed"}

\* C20: the video is saved, of frames of more than one slide.
C20_Witness ==
  /\ rpc = "saved"
  /\ ffmpeg = << "closed" >>
  /\ Len(shots) >= 4
  /\ shots[1].slide # shots[Len(shots)].slide

\* ------------------------------------------------------------------------
\* C18
\* ------------------------------------------------------------------------

\* The path p is the directory root or lies in it.
Inside(p, root) == p = root \/ StartsWith(p, root \o << "/" >>)

\* C18 as stated: the preview server reads and returns no file whose
\* resolved path is outside the root directory, whatever the request URL:
\* neither through .. segments nor in a directory next to the root whose
\* name starts with the name of the root.
C18_NeverOutsideRoot ==
  /\ vpc = "reading" /\ filePath \in Files => Inside(filePath, projectRoot)
  /\ res.status = 200 => Inside(res.body, projectRoot)

\* ------------------------------------------------------------------------
\* C19
\* ------------------------------------------------------------------------

\* The entities that stand for the characters of Special, and the character
\* each stands for
Entities == {Amp, Lt, Gt, Quot, Apos, AposHex}

EntityChar(e) ==
  CASE e = Amp -> "&"
    [] e = Lt -> "<"
    [] e = Gt -> ">"
    [] e = Quot -> "\""
    [] OTHER -> "'"

\* The characters of the texts, and what the escaping leaves as it is
Plain == Chars \cup {"Presentation"}

\* The entity e is written in h from element k on.
EntityAt(h, k, e) ==
  /\ k + Len(e) - 1 <= Len(h)
  /\ SubSeq(h, k, k + Len(e) - 1) = e

\* Element k of h is inside an entity, after its first character; an
\* entity has at most six characters.
InEntity(h, k) ==
  \E n \in {m \in (k - 5)..(k - 1) : m >= 1} :
    /\ h[n] = "&"
    /\ \E e \in Entities : EntityAt(h, n, e) /\ k < n + Len(e)

\* What a reader of the markup h sees of its element k: the character of
\* the entity that starts there, nothing of the rest of an entity, "raw"
\* for a character of Special that is not written as an entity, a plain
\* character as it is, nothing of a piece of the template.
ElementText(h, k) ==
  IF \E e \in Entities : EntityAt(h, k, e)
  THEN << EntityChar(CHOOSE e \in Entities : EntityAt(h, k, e)) >>
  ELSE IF InEntity(h, k) THEN <<>>
  ELSE IF h[k] \in Special THEN << "raw" >>
  ELSE IF h[k] \in Plain THEN << h[k] >>
  ELSE <<>>

\* The text a reader sees of the elements lo..hi of h
RECURSIVE TextBetween(_, _, _)
TextBetween(h, lo, hi) ==
  IF lo > hi THEN <<>>
  ELSE IF lo = hi THEN ElementText(h, lo)
  ELSE TextBetween(h, lo, (lo + hi) \div 2)
         \o TextBetween(h, (lo + hi) \div 2 + 1, hi)

ReadBack(h) == TextBetween(h, 1, Len(h))

\* The texts of a content item, in the order renderContent embeds them
RECURSIVE ItemTexts(_)
ItemTexts(items) ==
  IF items = <<>> THEN <<>> ELSE Head(items).text \o ItemTexts(Tail(items))

ContentTexts(contentItem) ==
  CASE contentItem.type = "bullets" -> ItemTexts(contentItem.items)
    [] contentItem.type = "text" -> contentItem.text
    [] contentItem.type = "image" -> contentItem.src \o contentItem.alt
    [] contentItem.type = "code" -> contentItem.language \o contentItem.code

RECURSIVE AllContentTexts(_)
AllContentTexts(cs) ==
  IF cs = <<>> THEN <<>>
  ELSE ContentTexts(Head(cs)) \o AllContentTexts(Tail(cs))

RECURSIVE SlideTexts(_)
SlideTexts(ss) ==
  IF ss = <<>> THEN <<>>
  ELSE Head(ss).title \o AllContentTexts(Head(ss).content)
         \o SlideTexts(Tail(ss))

\* The texts of the document, in the order the template embeds them
DocTexts(doc) ==
  TemplateTitle(doc) \o TemplateTitle(doc) \o doc.subtitle
    \o SlideTexts(doc.slides)

\* C19: in the markup no character & < > " ' of a text of the document
\* is left as it is: each is written as an entity, and with the entities
\* read back the page written holds the title, the subtitle, the slide
\* titles, bullet texts, paragraphs, image src and alt, code language and
\* code of the document, character by character.
C19_UserTextEscaped ==
  /\ \A k \in 1..Len(html) :
       html[k] \in Special => \E e \in Entities : EntityAt(html, k, e)
  /\ bpc = "written" => ReadBack(html) = DocTexts(buildDoc)

\* C19: a page is written whose document has a title with < and &, and
\* texts with an apostrophe elsewhere.
C19_Witness ==
  /\ bpc = "written"
  /\ buildDoc.title = << "<", "&" >>
  /\ buildDoc.subtitle = << "'" >>
  /\ Len(html) > Len(DocTexts(buildDoc))

\* ------------------------------------------------------------------------
\* C21
\* ------------------------------------------------------------------------

\* The stylesheet the page is to hold: that of the theme when it can be
\* read, else minimal.css when it can be read, else the embedded one
FallbackCSS ==
  IF theme \in themes THEN StyleOf(theme)
  ELSE IF "minimal" \in themes THEN StyleOf("minimal")
  ELSE getDefaultTheme

\* The steps of build.js after the stylesheet is loaded
Styled == {"head", "title", "section", "items", "written"}

\* The markup h holds the stylesheet css between <style> and </style>.
HoldsStyle(h, css) ==
  \E k \in 1..Len(h) :
    /\ h[k] = "<style>"
    /\ k + Len(css) + 1 <= Len(h)
    /\ SubSeq(h, k + 1, k + Len(css)) = css
    /\ h[k + Len(css) + 1] = "</style>"

\* C21: in the build step a stylesheet that cannot be read never makes the
\* step fail: the step exits with status 1 only where it reads the content,
\* the stylesheet loaded is that of the theme, else minimal.css, else the
\* embedded one, the page written holds it, and once the content is read
\* the page is written, whatever stylesheets can be read.
C21_ThemeFallback ==
  /\ [](bpc \in Styled => themeCSS = FallbackCSS)
  /\ [](bpc = "written" => HoldsStyle(html, FallbackCSS))
  /\ [][bpc' = "exit1" => bpc = "read"]_vars
  /\ (bpc = "theme") ~> (bpc = "written")

\* C21: a page is written with the embedded stylesheet, neither the
\* stylesheet of the theme nor minimal.css being readable.
C21_Witness ==
  /\ bpc = "written"
  /\ theme = "dark"
  /\ themes = {}
  /\ themeCSS = getDefaultTheme
  /\ HoldsStyle(html, getDefaultTheme)

\* ------------------------------------------------------------------------
\* C22
\* ------------------------------------------------------------------------

\* The run has looked at what it was given, and ffmpeg or the input HTML
\* file is not there.
Absent == rpc # "config" /\ (~ffmpegInstalled \/ ~inputExists)

\* C22: in the render step, when ffmpeg or the input HTML file is absent,
\* the run does not get past its checks: the directory of the frames is
\* neither made nor cleared, the browser is not launched, no frame is
\* captured and no encoder is spawned that would write the output file,
\* and the run exits with status 1.
C22_AbsenceDetectedFirst ==
  /\ [](Absent =>
         /\ rpc \in {"ffmpeg", "input", "exit1"}
         /\ tempDir = "untouched"
         /\ browser = "none"
         /\ visited = <<>>
         /\ shots = <<>>
         /\ ffmpeg = <<>>)
  /\ [][rpc' = "exit1" => Absent]_vars
  /\ Absent ~> (rpc = "exit1")

\* C22: a run has exited with status 1 at the check of its input, ffmpeg
\* being there and the input HTML file not.
C22_Witness ==
  /\ rpc = "exit1"
  /\ ffmpegInstalled
  /\ ~inputExists
  /\ tempDir = "untouched"
  /\ browser = "none"

\* ------------------------------------------------------------------------
\* C23
\* ------------------------------------------------------------------------

\* The elements of the markup h that are the element e
Occurrences(h, e) == {k \in 1..Len(h) : h[k] = e}

\* C23 as stated: renderBullets renders every item of the list once, as
\* one <li>, in the order of the list, whatever the levels of the items:
\* the markup has as many <li> as the list has items, and read in order
\* their texts are the texts of the items.
C23_EveryItemOnce ==
  bulletList # <<>> =>
    /\ Cardinality(Occurrences(bulletsHtml, "<li>")) = Len(bulletList)
    /\ ReadBack(bulletsHtml) = ItemTexts(bulletList)

\* ------------------------------------------------------------------------
\* C24
\* ------------------------------------------------------------------------

\* The node scripts a command may invoke, in the order it invokes them
ScriptsOf(command) ==
  CASE command = "parse" -> << "bin/parse.js" >>
    [] command = "build" -> << "bin/build.js" >>
    [] command = "preview" -> << "bin/preview.js" >>
    [] command = "render" -> << "bin/render.js" >>
    [] command = "all" -> << "bin/parse.js", "bin/build.js" >>
    [] OTHER -> <<>>

\* C24: whatever calls of slides.sh came before, a call invokes the node
\* script of a stage only when the input file of the stage is there:
\* outline.txt for bin/parse.js, slides.yaml for bin/build.js, slides.html
\* for bin/preview.js and bin/render.js. A call of parse, build, preview or
\* render whose input file is not there, and a call of all without
\* outline.txt, exits with status 1 and has invoked no node script. A call
\* of all invokes bin/parse.js, then bin/build.js, and bin/build.js only
\* after bin/parse.js has ended with code 0.
C24_StageNeedsInput ==
  /\ Len(nodeRuns) <= Len(ScriptsOf(COMMAND))
  /\ \A k \in 1..Len(nodeRuns) :
       /\ nodeRuns[k].script = ScriptsOf(COMMAND)[k]
       /\ InputOf(nodeRuns[k].script) \in nodeRuns[k].found
       /\ k < Len(nodeRuns) => nodeRuns[k].code = 0
  /\ spc = "exited" /\ ScriptsOf(COMMAND) # <<>>
       /\ InputOf(ScriptsOf(COMMAND)[1]) \notin presFiles
       => nodeRuns = <<>> /\ exitStatus = 1
  /\ spc = "exited" /\ nodeRuns # <<>>
       => exitStatus = nodeRuns[Len(nodeRuns)].code

\* C24: a call of all has ended with status 1 after bin/parse.js failed,
\* and has not invoked bin/build.js although a slides.yaml of an earlier
\* call is there.
C24_Witness ==
  /\ spc = "exited"
  /\ COMMAND = "all"
  /\ Len(nodeRuns) = 1
  /\ nodeRuns[1].code = 1
  /\ "slides.yaml" \in presFiles
  /\ exitStatus = 1

====
